---- MODULE Spec2Model ----
(***************************************************************************)
(* Model of the runtime import tracker (testfully/tracker.py) and of the   *)
(* module import graph it is validated against.                            *)
(*                                                                         *)
(* Python set objects are modelled as cells of a heap: tracked[] and cxt   *)
(* hold references (cell numbers), so that "the same set object" is        *)
(* "the same reference" and an in-place update is seen through every       *)
(* alias.                                                                  *)
(***************************************************************************)
EXTENDS Integers, Sequences, FiniteSets, TLC

\* ------------------------------------------------------------------ bounds
MaxLoads == 6       \* import statements executed in one run
MaxMerged == 4      \* resolved imports merged into the graph
MaxEdges == 2       \* entries of one add_dynamic_dependencies_at_leaves call

\* ------------------------------------------------------------------ names
Root == ""
Mods == {"p", "p.a", "p.b", "p.c", "p.d"}
Names == Mods \cup {Root}
prefixes == {"p"}
\* the names whose file may be absent when the finders look for it
Missable == {"p.d"}
NoRef == 0
\* every import statement allocates at most two set objects (its own, and
\* that of an implicitly imported parent package)
Refs == 1..(2 * MaxLoads + 1)

\* name.rpartition('.')[0]
Parent(name) == IF name \in {"p", Root} THEN Root ELSE "p"
\* modules outside the tracked prefixes
Foreign == {"os", "os.path"}
\* name.partition('.')[0]
BaseNs(name) ==
    IF name = Root THEN Root ELSE IF name \in Foreign THEN "os" ELSE "p"

VARIABLES
    stack,       \* Tracker.stack
    cxt,         \* Tracker.cxt (a reference)
    tracked,     \* Tracker.tracked: name -> reference, NoRef when absent
    heap,        \* reference -> contents of the set object
    nrefs,       \* number of set objects allocated so far
    sysmodules,  \* keys of sys.modules
    frames,      \* hook invocations in progress, outermost first
    imports,     \* import statements executed so far, per module body
    nloads,      \* import statements executed so far
    anyFail,     \* history: some load raised
    completed,   \* history: name -> names hooked during its returned loads
    last,        \* history: the hook invocation that has just exited
    lastConsol,  \* history: the latest cycle consolidation
    lateLoads,   \* history: <<cycle, d>>, d loaded by the cycle's head later
    forward,     \* graph, forward index: module -> direct dependencies
    reverse,     \* graph, reverse index: module -> direct dependents
    slot,        \* graph: module -> handle of its closure set
    sets,        \* graph: handle -> contents of the closure set
    built,       \* graph: construction is over
    prevClosure, \* history: every closure before the latest overlay call
    lastCall,    \* history: the latest overlay call and its outcome
    modified,       \* PruneSelector.modified
    always_run,     \* _BaseSelector.always_run
    filegraph,      \* the graph as the selector queries it, by file
    hook_overrides, \* the hook overrides a dynamic-dependency method
    irrelevant,     \* files that hook.filter_irrelevant_files rejects
    items,          \* the items list that pytest hands to the hook
    covered_files,  \* _BaseSelector.covered_files
    deselected,     \* the call of pytest_deselected and its argument
    selpc,          \* "idle", "ready" (items collected), "done", "raised"
                    \* or "measured" (PruneImpact)
    impact,         \* PruneImpact: what it printed for each commit
    dynamic_imports, \* Tracker.dynamic_imports: anchor -> names
    dynamic_users,   \* Tracker.dynamic_users: module -> anchors
    dynamic_stack,   \* Tracker.dynamic_stack
    file_to_module,  \* Tracker.file_to_module, NoMod when absent
    dynamic_anchors, \* Tracker.dynamic_anchors, as (module, selector) pairs
    dynamic_ignores, \* Tracker.dynamic_ignores, as (module, selector) pairs
    wrapped,         \* the anchors wrapped by add_dynamic_usage_recorder
    tb,              \* the call stack, outermost frame first
    calls,           \* the invocations of _new_find_and_load in progress
    lastWalk,        \* history: record_dynamic_imports as just called
    lastDone,        \* history: the load that has just returned
    dynLog,          \* history: fresh loads attributed to an anchor
    tree,            \* the source tree: file -> ids its imports resolve to
    parsed,          \* the files merged into the graph so far
    kept,            \* a second graph object: the clone kept aside
    py_tracked,      \* validate_subset: module -> imports tracked
    rust_graph,      \* validate_subset: module -> module_depends_on
    filter_fn,       \* validate_subset: the modules filter_fn accepts
    todo,            \* validate_subset: the items the loop has yet to visit
    diff_count,      \* validate_subset: diff_count
    printed,         \* validate_subset: the lines printed
    valpc,           \* validate_subset: "idle", "loop" or "returned"
    folder,          \* validate_folder: its progress and its locals
    is_controller,    \* TestfullyValidate.is_controller
    current_file,     \* TestfullyValidate.current_file
    expected_imports, \* TestfullyValidate.expected_imports
    warnonly,         \* config option testfully_warnonly
    file_graph,       \* the graph's file_depends_on, by test file
    prot,             \* pytest_runtest_protocol: the invocation in progress
    reports,          \* the reports and warnings handed to pytest
    nitems,           \* items run so far
    installed,   \* importlib._bootstrap._find_and_load, _handle_fromlist
                 \* and builtins.__import__: the function in each place
    olds,        \* per Tracker: old_find_and_load, old_handle_fromlist,
                 \* old_builtins_import
    phase,       \* per Tracker: new, started, stopped
    running,     \* the started trackers, in the order of their starts
    nested,      \* every stop so far was of the tracker started last
    fstree,      \* the directories under the root given to hook_zeroconf
    zhook,       \* the hook that hook_zeroconf returned
    xcfg,        \* the options of the run under xdist
    graph_file,  \* the file at the shared graph path
    ctl,         \* the controller's progress, and the GraphLoader of the process
    workers      \* per worker: its progress and its GraphLoader

trackerVars == <<stack, cxt, tracked, heap, nrefs>>
hostVars == <<sysmodules, frames, imports, nloads>>
histVars == <<anyFail, completed, last, lastConsol, lateLoads>>
graphVars == <<forward, reverse, slot, sets, built, prevClosure, lastCall>>
selVars == <<modified, always_run, filegraph, hook_overrides, irrelevant,
             items, covered_files, deselected, selpc, impact>>
dynVars == <<dynamic_imports, dynamic_users, dynamic_stack, file_to_module,
             dynamic_anchors, dynamic_ignores, wrapped, tb, calls,
             lastWalk, lastDone, dynLog>>
fileVars == <<tree, parsed, kept>>
valVars == <<py_tracked, rust_graph, filter_fn, todo, diff_count, printed,
             valpc, folder>>
plugVars == <<is_controller, current_file, expected_imports, warnonly,
              file_graph, prot, reports, nitems>>
machVars == <<installed, olds, phase, running, nested>>
confVars == <<fstree, zhook>>
xdistVars == <<xcfg, graph_file, ctl, workers>>
sideVars == <<machVars, confVars, xdistVars>>
vars == <<trackerVars, hostVars, histVars, graphVars, selVars, dynVars,
          fileVars, valVars, plugVars, sideVars>>
\* what the tracker's operations and what the graph's operations leave alone
besideTracker == <<graphVars, selVars, dynVars, fileVars, valVars, plugVars,
                   sideVars>>
besideDyn == <<graphVars, selVars, fileVars, valVars, plugVars, sideVars>>
besideGraph == <<trackerVars, hostVars, histVars, selVars, dynVars, fileVars,
                 valVars, plugVars, sideVars>>
besideFiles == <<trackerVars, hostVars, histVars, selVars, dynVars, valVars,
                 plugVars, sideVars>>
besideVal == <<trackerVars, hostVars, histVars, graphVars, selVars, dynVars,
               fileVars, plugVars, sideVars>>
besidePlug == <<graphVars, selVars, dynVars, fileVars, valVars, sideVars>>
besideSide == <<trackerVars, hostVars, histVars, graphVars, selVars, dynVars,
                fileVars, valVars, plugVars>>

\* The tracker's fields as one value, for the pure helper operators.
Cur == [stack |-> stack, cxt |-> cxt, tracked |-> tracked,
        heap |-> heap, nrefs |-> nrefs]

NoEvent == [kind |-> "none"]
NoConsol == [head |-> Root, members |-> {}]

\* ------------------------------------------------------- set-object helpers
\* s.update(more) / s.add(x) on the object behind reference r
Update(h, r, more) == [h EXCEPT ![r] = @ \cup more]
\* s.discard(x)
Discard(h, r, x) == [h EXCEPT ![r] = @ \ {x}]

\* next((i for i, v in enumerate(self.stack) if v == name), -1), 1-based, 0 = none
StartIdx(stk, name) ==
    IF \E i \in 1..Len(stk) : stk[i] = name
    THEN CHOOSE i \in 1..Len(stk) :
            stk[i] = name /\ \A j \in 1..(i - 1) : stk[j] # name
    ELSE 0

\* One iteration of "for mod in cycle[1:]" of the consolidation loop.
ConsolidateOneNoRepoint(t, consolidated, mod) ==
    LET deps == t.tracked[mod] IN
    IF deps # consolidated
    THEN [t EXCEPT !.heap = Update(t.heap, consolidated, t.heap[deps])]
    ELSE t

ConsolidateOne(t, consolidated, mod) ==
    LET deps == t.tracked[mod] IN
    IF deps # consolidated
    THEN [t EXCEPT !.heap = Update(t.heap, consolidated, t.heap[deps]),
                   !.tracked[mod] = consolidated]
    ELSE t

RECURSIVE ConsolidateFrom(_, _, _, _)
ConsolidateFrom(t, consolidated, cycle, i) ==
    IF i > Len(cycle) THEN t
    ELSE ConsolidateFrom(ConsolidateOne(t, consolidated, cycle[i]),
                         consolidated, cycle, i + 1)

\* The cycle branch of _find_and_load_helper.
Consolidate(t, name, start_idx) ==
    LET cycle == SubSeq(t.stack, start_idx, Len(t.stack))
        consolidated == t.tracked[name]
        t2 == ConsolidateFrom(t, consolidated, cycle, 2)
    IN [t2 EXCEPT !.cxt = consolidated]

\* The fresh branch: a new set object, pushed as the current context.
PushFresh(t, name) ==
    LET tdeps == t.nrefs + 1 IN
    [t EXCEPT !.nrefs = tdeps,
              !.heap[tdeps] = {},
              !.tracked[name] = tdeps,
              !.stack = Append(t.stack, name),
              !.cxt = tdeps]

\* _find_and_load_helper up to the call of the underlying loader.
\* Returns the tracker fields and new_context.
HelperEntry(t, name) ==
    LET t1 == [t EXCEPT !.heap = Update(t.heap, t.cxt, {name})] IN
    IF t1.tracked[name] # NoRef
    THEN LET start_idx == StartIdx(t1.stack, name) IN
         IF start_idx = 0
         THEN [t |-> [t1 EXCEPT !.heap =
                        Update(t1.heap, t1.cxt, t1.heap[t1.tracked[name]])],
               new_context |-> FALSE]
         ELSE [t |-> Consolidate(t1, name, start_idx), new_context |-> FALSE]
    ELSE [t |-> PushFresh(t1, name), new_context |-> TRUE]

\* After the underlying loader returned: reify the implicit parent package.
ReifyParent(t, name) ==
    LET parent == Parent(name) IN
    IF parent # Root /\ parent \notin t.heap[t.cxt] /\ t.tracked[parent] # NoRef
    THEN [t EXCEPT !.heap =
            Update(t.heap, t.cxt, {parent} \cup t.heap[t.tracked[parent]])]
    ELSE t

\* The except clause: drop the entry of a fresh load that failed.
Rollback(t, name, new_context) ==
    IF new_context
       /\ ~ \E i \in 1..(Len(t.stack) - 1) : t.stack[i] = name
    THEN [t EXCEPT !.tracked[name] = NoRef]
    ELSE t

\* The finally clause with the pop left out on the error path.
PopDownLeaky(t, name, new_context, has_err) ==
    IF new_context /\ ~has_err
    THEN LET stk == SubSeq(t.stack, 1, Len(t.stack) - 1)
             down == t.tracked[stk[Len(stk)]]
             h == IF down # t.cxt THEN Update(t.heap, down, t.heap[t.cxt])
                  ELSE t.heap
         IN [t EXCEPT !.stack = stk, !.heap = h, !.cxt = down]
    ELSE t

\* The finally clause without the propagation of deps down the stack.
PopDownNoUpdate(t, name, new_context, has_err) ==
    IF new_context
    THEN LET stk == SubSeq(t.stack, 1, Len(t.stack) - 1)
             down == t.tracked[stk[Len(stk)]]
         IN [t EXCEPT !.stack = stk,
                      !.heap = IF has_err THEN Discard(t.heap, down, name)
                               ELSE t.heap,
                      !.cxt = down]
    ELSE t

\* The finally clause without the discard of the failed name.
PopDownNoDiscard(t, name, new_context, has_err) ==
    IF new_context
    THEN LET stk == SubSeq(t.stack, 1, Len(t.stack) - 1)
             down == t.tracked[stk[Len(stk)]]
             h == IF down # t.cxt THEN Update(t.heap, down, t.heap[t.cxt])
                  ELSE t.heap
         IN [t EXCEPT !.stack = stk, !.heap = h, !.cxt = down]
    ELSE t

\* The finally clause: pop the context pushed earlier, propagate deps down.
\* self.tracked[n] raises KeyError, after the pop, when n has no entry.
PopDown(t, name, new_context, has_err) ==
    IF new_context
    THEN LET stk == SubSeq(t.stack, 1, Len(t.stack) - 1)
             n == stk[Len(stk)]
             down == t.tracked[n]
             h == IF down # t.cxt THEN Update(t.heap, down, t.heap[t.cxt])
                  ELSE t.heap
         IN IF down = NoRef THEN [t EXCEPT !.stack = stk]
            ELSE [t EXCEPT !.stack = stk,
                           !.heap = IF has_err THEN Discard(h, down, name)
                                    ELSE h,
                           !.cxt = down]
    ELSE t

\* the finally clause raises KeyError: the entry below the top has no set
PopRaises(t, new_context) ==
    new_context /\ t.tracked[t.stack[Len(t.stack) - 1]] = NoRef

\* _find_and_load_helper from the return (or raise) of the underlying loader.
HelperExit(t, name, new_context, has_err) ==
    IF has_err
    THEN PopDown(Rollback(t, name, new_context), name, new_context, TRUE)
    ELSE PopDown(ReifyParent(t, name), name, new_context, FALSE)


\* --------------------------------------------------------------- the host
\* The names imported so far. The tracker treats p.a, p.b and p.c alike (none
\* has a missing file, all are children of p), so runs are explored up to a
\* renaming of the three: the first import of p.b comes after one of p.a,
\* the first import of p.c after one of p.b.
Hooked == UNION {imports[m] : m \in Names}
Earlier(name) == CASE name = "p.b" -> {"p.a"}
                   [] name = "p.c" -> {"p.a", "p.b"}
                   [] OTHER -> {}
InOrder(name) == Earlier(name) \subseteq Hooked

\* The import machinery around the hook (importlib._bootstrap): the hook runs
\* before the sys.modules check; a name not in sys.modules has its parent
\* package imported first, then its spec found and its body executed, every
\* import statement of the body calling the hook again.

Top(fs) == fs[Len(fs)]
Pop(fs) == SubSeq(fs, 1, Len(fs) - 1)
SetTop(fs, f) == [fs EXCEPT ![Len(fs)] = f]

NeedsParent(name, sm) == Parent(name) # Root /\ Parent(name) \notin sm

\* every invocation in progress has now seen the hook called for name
Seen(fs, name) == [i \in 1..Len(fs) |-> [fs[i] EXCEPT !.inv = @ \cup {name}]]

SetTracker(t) ==
    /\ stack' = t.stack
    /\ cxt' = t.cxt
    /\ tracked' = t.tracked
    /\ heap' = t.heap
    /\ nrefs' = t.nrefs

CycleMembers(stk, start_idx) == {stk[i] : i \in start_idx..Len(stk)}

\* _new_find_and_load(name) called with the invocations `base` in progress
\* (record_dynamic off). A name found in sys.modules is returned by the
\* underlying loader at once, so the whole hook runs in this step; otherwise
\* the hook stays in progress while the host loads the module.
Enter(name, base) ==
    LET r == HelperEntry(Cur, name)
        start_idx == StartIdx(stack, name)
        isCycle == tracked[name] # NoRef /\ start_idx # 0
        caller == IF base = <<>> THEN Root ELSE Top(base).name
    IN
    /\ BaseNs(name) \in prefixes
    /\ lastConsol' = IF isCycle
                     THEN [head |-> name,
                           members |-> CycleMembers(stack, start_idx)]
                     ELSE lastConsol
    /\ lateLoads' = IF ~isCycle /\ lastConsol.members # {}
                       /\ caller = lastConsol.head
                    THEN lateLoads \cup {<<lastConsol.members, name>>}
                    ELSE lateLoads
    /\ IF name \in sysmodules
       THEN LET t2 == HelperExit(r.t, name, r.new_context, FALSE) IN
            /\ SetTracker(t2)
            /\ frames' = Seen(base, name)
            /\ last' = [kind |-> "return", name |-> name,
                        fresh |-> r.new_context, pre |-> stack,
                        post |-> t2.stack, inv |-> {}]
       ELSE /\ SetTracker(r.t)
            /\ frames' = Append(Seen(base, name),
                            [name |-> name, fresh |-> r.new_context,
                             st |-> IF NeedsParent(name, sysmodules)
                                    THEN "parent" ELSE "find",
                             inv |-> {}, pre |-> stack])
            /\ last' = NoEvent
    /\ UNCHANGED <<sysmodules, anyFail, completed, besideTracker>>

\* the test (or any code outside the tracked modules) imports name
TopLoad(name) ==
    /\ frames = <<>>
    /\ nloads < MaxLoads
    /\ nloads' = nloads + 1
    /\ InOrder(name)
    /\ imports' = [imports EXCEPT ![Root] = @ \cup {name}]
    /\ Enter(name, <<>>)

\* _find_and_load_unlocked: the parent package is imported first
ParentImport ==
    /\ frames # <<>>
    /\ Top(frames).st = "parent"
    /\ Enter(Parent(Top(frames).name),
             SetTop(frames, [Top(frames) EXCEPT !.st = "find"]))
    /\ UNCHANGED <<imports, nloads>>

\* _find_and_load_unlocked after the parent: the name may have been loaded
\* meanwhile; otherwise its spec is found, or ModuleNotFoundError is raised
FindSpec(found) ==
    /\ frames # <<>>
    /\ Top(frames).st = "find"
    /\ LET f == Top(frames) IN
       IF f.name \in sysmodules
       THEN /\ found
            /\ frames' = SetTop(frames, [f EXCEPT !.st = "ret"])
            /\ UNCHANGED <<sysmodules, anyFail>>
       ELSE IF ~found
       THEN /\ f.name \in Missable
            /\ frames' = SetTop(frames, [f EXCEPT !.st = "raise"])
            /\ anyFail' = TRUE
            /\ UNCHANGED sysmodules
       ELSE /\ frames' = SetTop(frames, [f EXCEPT !.st = "body"])
            /\ sysmodules' = sysmodules \cup {f.name}
            /\ UNCHANGED anyFail
    /\ last' = NoEvent
    /\ UNCHANGED <<trackerVars, imports, nloads, completed,
                   lastConsol, lateLoads, besideTracker>>

\* the body of the module being loaded executes an import statement
BodyImport(name) ==
    /\ frames # <<>>
    /\ Top(frames).st = "body"
    /\ nloads < MaxLoads
    /\ nloads' = nloads + 1
    /\ InOrder(name)
    /\ imports' = [imports EXCEPT ![Top(frames).name] = @ \cup {name}]
    /\ Enter(name, frames)

\* the underlying loader returns: the rest of _find_and_load_helper runs.
\* A KeyError of the finally clause reaches the code that entered the
\* context on top of the stack, which goes on.
Return ==
    /\ frames # <<>>
    /\ Top(frames).st \in {"body", "ret"}
    /\ LET f == Top(frames)
           t2 == HelperExit(Cur, f.name, f.fresh, FALSE)
       IN /\ SetTracker(t2)
          /\ frames' = Pop(frames)
          /\ IF PopRaises(Cur, f.fresh)
             THEN /\ last' = [kind |-> "KeyError", name |-> f.name,
                              fresh |-> f.fresh, pre |-> f.pre,
                              post |-> t2.stack, inv |-> f.inv]
                  /\ UNCHANGED completed
             ELSE /\ last' = [kind |-> "return", name |-> f.name,
                              fresh |-> f.fresh, pre |-> f.pre,
                              post |-> t2.stack, inv |-> f.inv]
                  /\ completed' = [completed EXCEPT ![f.name] = @ \cup f.inv]
    /\ UNCHANGED <<sysmodules, imports, nloads, anyFail,
                   lastConsol, lateLoads, besideTracker>>

\* the underlying loader raises: except and finally of the helper run and the
\* error reaches the importer, which lets it propagate (its own load fails,
\* its module leaves sys.modules) or, if it is a module body, may catch it;
\* the test, or the code that entered a context, catches it
Raise(caught) ==
    /\ frames # <<>>
    /\ Top(frames).st = "raise"
    /\ LET f == Top(frames)
           t2 == HelperExit(Cur, f.name, f.fresh, TRUE)
           rest == Pop(frames)
       IN /\ SetTracker(t2)
          /\ last' = [kind |-> "raise", name |-> f.name, fresh |-> f.fresh,
                      pre |-> f.pre, post |-> t2.stack, inv |-> f.inv,
                      importer |-> t2.stack[Len(t2.stack)]]
          /\ IF rest = <<>> \/ Top(rest).st = "context"
             THEN /\ caught
                  /\ frames' = rest
                  /\ UNCHANGED sysmodules
             ELSE IF Top(rest).st = "body" /\ caught
             THEN /\ frames' = rest
                  /\ UNCHANGED sysmodules
             ELSE /\ ~caught
                  /\ frames' = SetTop(rest, [Top(rest) EXCEPT !.st = "raise"])
                  /\ sysmodules' = sysmodules \ {Top(rest).name}
    /\ UNCHANGED <<imports, nloads, anyFail, completed,
                   lastConsol, lateLoads, besideTracker>>

\* ------------------------------------------- untracked names, from-imports
MaxHookLoads == 3   \* import statements executed in one run with from-imports

\* the tracker's bookkeeping as values: the stack, the contents of every
\* tracked set, dynamic_imports and dynamic_users
TrackedContents ==
    [n \in Names |-> [has |-> tracked[n] # NoRef,
                      deps |-> IF tracked[n] # NoRef THEN heap[tracked[n]]
                               ELSE {}]]
Snapshot ==
    [stack |-> stack, tracked |-> TrackedContents,
     dynamic_imports |-> dynamic_imports, dynamic_users |-> dynamic_users]

\* a hook that records the name before forwarding
ForwardRecorded(t, name) == [t EXCEPT !.heap = Update(t.heap, t.cxt, {name})]

\* _new_find_and_load for a name outside the prefixes:
\* return self.old_find_and_load(name, import_)
Forward(t, name) == t

\* the test or a module body imports a name outside the prefixes; the
\* module imports nothing from the tracked prefixes
ForeignLoad(name) ==
    /\ IF frames = <<>> THEN TRUE ELSE Top(frames).st = "body"
    /\ nloads < MaxHookLoads
    /\ nloads' = nloads + 1
    /\ BaseNs(name) \notin prefixes
    /\ SetTracker(Forward(Cur, name))
    /\ last' = [kind |-> "forward", name |-> name, before |-> Snapshot]
    /\ UNCHANGED <<sysmodules, frames, imports, anyFail, completed,
                   lastConsol, lateLoads, besideTracker>>

\* `from pkg import x`: the module objects that have a __path__, and what the
\* attribute x of pkg is bound to: a module (under its own name or under an
\* alias, inside or outside the prefixes), another object, or nothing
Packages == {"p"}
FromPkgs == {"p", "p.a"}
NoModule == "None"
FromBindings ==
    { [x |-> "d", kind |-> "module", canonical |-> "p.d"],
      [x |-> "alias", kind |-> "module", canonical |-> "p.a"],
      [x |-> "os_alias", kind |-> "module", canonical |-> "os"],
      [x |-> "version", kind |-> "object", canonical |-> NoModule],
      [x |-> "missing", kind |-> "absent", canonical |-> NoModule] }
\* '{}.{}'.format(module.__name__, x)
FromName(pkg, x) == pkg \o "." \o x

\* whether the loop body of _new_handle_fromlist reaches self.cxt.add
AddsCanonical(pkg, b) ==
    /\ pkg \in Packages
    /\ BaseNs(pkg) \in prefixes
    /\ b.kind = "module"
    /\ ~(b.canonical # FromName(pkg, b.x) /\ BaseNs(b.canonical) \notin prefixes)

\* a hook that records the alias instead of the module's own name
NewHandleFromlistAlias(t, pkg, b) ==
    IF AddsCanonical(pkg, b)
    THEN [t EXCEPT !.heap = Update(t.heap, t.cxt,
            {FromName(pkg, b.x)} \cup
                (IF t.tracked[b.canonical] # NoRef
                 THEN t.heap[t.tracked[b.canonical]] ELSE {}))]
    ELSE t

\* _new_handle_fromlist(module, [x], import_) up to the call of the
\* underlying _handle_fromlist
NewHandleFromlist(t, pkg, b) ==
    IF AddsCanonical(pkg, b)
    THEN [t EXCEPT !.heap = Update(t.heap, t.cxt,
            {b.canonical} \cup
                (IF t.tracked[b.canonical] # NoRef
                 THEN t.heap[t.tracked[b.canonical]] ELSE {}))]
    ELSE t

\* the second half of `from pkg import x`: the import of pkg has just
\* returned and the host calls _handle_fromlist; a bound module of the
\* prefixes is a loaded one
HandleFromlist(b) ==
    /\ last.kind = "return"
    /\ last.name \in FromPkgs
    /\ last.name \in sysmodules
    /\ (b.kind = "module" /\ BaseNs(b.canonical) \in prefixes)
          => b.canonical \in sysmodules
    /\ SetTracker(NewHandleFromlist(Cur, last.name, b))
    /\ last' = [kind |-> "fromlist", name |-> last.name, binding |-> b,
                before |-> Snapshot, importer |-> Top(stack)]
    /\ UNCHANGED <<sysmodules, frames, imports, nloads, anyFail, completed,
                   lastConsol, lateLoads, besideTracker>>

\* the imports by the test and by module bodies, within the bound
HookTopLoad(name) == nloads < MaxHookLoads /\ TopLoad(name)
HookBodyImport(name) == nloads < MaxHookLoads /\ BodyImport(name)

\* ------------------------------------------------------ enter/exit context
\* The code that runs the tests (not itself inside an import) enters a
\* context, imports modules and exits the context.
MaxCxtLoads == 3    \* import statements executed in one run with contexts
\* the names given to enter_context and exit_context: one that is never a
\* module, and one of a module
Cxts == {"w", "p.a"}

\* Tracker.enter_context(cxt)
EnterContext(c) ==
    /\ frames = <<>>
    /\ stack' = Append(stack, c)
    /\ frames' = <<[name |-> c, fresh |-> FALSE, st |-> "context",
                    inv |-> {}, pre |-> stack]>>
    /\ last' = NoEvent
    /\ UNCHANGED <<cxt, tracked, heap, nrefs, sysmodules, imports, nloads,
                   anyFail, completed, lastConsol, lateLoads, besideTracker>>

\* exit_context that never raises
ExitOutcomeSilent(actual, expected) == [error |-> "none", message |-> <<>>]

\* the comparison of exit_context and the error it raises
ExitOutcome(actual, expected) ==
    IF actual # expected
    THEN [error |-> "ValueError", message |-> <<actual, expected>>]
    ELSE [error |-> "none", message |-> <<>>]

\* an exit that compares before it pops, and leaves the stack on a mismatch
ExitStackChecked(stk, expected) ==
    IF Top(stk) # expected THEN stk ELSE Pop(stk)

\* actual = self.stack.pop(): the stack that exit_context leaves
ExitStack(stk, expected) == Pop(stk)

\* Tracker.exit_context(expected), called by the code that entered a context
ExitContext(expected) ==
    /\ frames # <<>>
    /\ Top(frames).st = "context"
    /\ LET actual == Top(stack) IN
       /\ stack' = ExitStack(stack, expected)
       /\ last' = [kind |-> "exit_context", name |-> actual,
                   expected |-> expected, pre |-> stack,
                   post |-> ExitStack(stack, expected),
                   inv |-> Top(frames).inv,
                   outcome |-> ExitOutcome(actual, expected)]
    /\ frames' = Pop(frames)
    /\ UNCHANGED <<cxt, tracked, heap, nrefs, sysmodules, imports, nloads,
                   anyFail, completed, lastConsol, lateLoads, besideTracker>>

\* the code that entered the context imports name
CxtLoad(name) ==
    /\ frames # <<>>
    /\ Top(frames).st = "context"
    /\ nloads < MaxCxtLoads
    /\ nloads' = nloads + 1
    /\ InOrder(name)
    /\ imports' = [imports EXCEPT ![Root] = @ \cup {name}]
    /\ Enter(name, frames)

\* the imports outside a context and by module bodies, within the bound
CxtTopLoad(name) == nloads < MaxCxtLoads /\ TopLoad(name)
CxtBodyImport(name) == nloads < MaxCxtLoads /\ BodyImport(name)

\* start_tracking: no name given to enter_context has an entry in tracked
CxtInit ==
    /\ stack = <<Root>>
    /\ cxt = 1
    /\ tracked = [n \in Names \cup Cxts |-> IF n = Root THEN 1 ELSE NoRef]
    /\ heap = [r \in Refs |-> {}]
    /\ nrefs = 1
    /\ sysmodules = {}
    /\ frames = <<>>
    /\ imports = [m \in Names |-> {}]
    /\ nloads = 0
    /\ anyFail = FALSE
    /\ completed = [m \in Mods |-> {}]
    /\ last = NoEvent
    /\ lastConsol = NoConsol
    /\ lateLoads = {}

\* --------------------------------------------------------------- the graph
\* The module import graph: global modules share one namespace, a local
\* module belongs to the scope of its root and is imported only from there.
Globals == {"g.a", "g.b", "g.c"}
Locals == {"t.x", "t.y"}
GMods == Globals \cup Locals
Scopes == {"t"}
NoScope == "global"
ScopeOf(m) == IF m \in Locals THEN "t" ELSE NoScope

\* what an import statement of module m can resolve to
Resolvable(m, n) ==
    /\ m # n
    /\ n \in Globals \/ (ScopeOf(n) = ScopeOf(m))

\* module_depends_on(m): the closure set behind m's slot
Closure(m) == sets[slot[m]]

\* the modules reached from `seen` by walking the index idx
RECURSIVE Walk(_, _)
Walk(idx, seen) ==
    LET more == UNION {idx[m] : m \in seen} IN
    IF more \subseteq seen THEN seen ELSE Walk(idx, seen \cup more)

\* a module named without a scope is looked up in the global namespace: the
\* name of a local module finds nothing there (test_graph.py: test_tracker
\* depends on tracker_helper, and is not affected by that name)
Lookup(name) == IF name \in Globals THEN {name} ELSE {}

\* the transitive closure on the reverse index, starting from the seeds
AffectedByModules(seeds) ==
    LET ids == UNION {Lookup(b) : b \in seeds}
    IN Walk(reverse, UNION {reverse[b] : b \in ids})

\* the direct dependents alone, the walk up the reverse index left out
AncestorsDirect(m) == reverse[m]

\* the modules whose closure includes m: m's dependents, transitively
Ancestors(m) == Walk(reverse, reverse[m])

\* extend in place the closure set of every module of `targets`
Extend(ss, sl, targets, new) ==
    [h \in DOMAIN ss |-> IF \E a \in targets : sl[a] = h THEN ss[h] \cup new
                         ELSE ss[h]]

\* a completed cycle left as it is: every member keeps its own set
JoinCycleNoShare(sl, ss, m) == sl

\* when the edge from m completed a cycle, every participant's slot is
\* pointed to the set of m
JoinCycle(sl, ss, m) ==
    IF m \in ss[sl[m]]
    THEN [x \in GMods |-> IF x \in ss[sl[m]] /\ m \in ss[sl[x]] THEN sl[m]
                          ELSE sl[x]]
    ELSE sl

\* the reverse index left without the new dependent
AddDependentNot(rv, n, m) == rv

AddDependent(rv, n, m) == [rv EXCEPT ![n] = @ \cup {m}]

\* construction: the resolved import "m imports n" is merged into the graph
Merge(m, n) ==
    /\ ~built
    /\ Resolvable(m, n)
    /\ n \notin forward[m]
    /\ Cardinality(UNION {{<<a, b>> : b \in forward[a]} : a \in GMods}) < MaxMerged
    /\ LET new == {n} \cup Closure(n)
           ss == Extend(sets, slot, {m} \cup Ancestors(m), new)
       IN /\ forward' = [forward EXCEPT ![m] = @ \cup {n}]
          /\ reverse' = AddDependent(reverse, n, m)
          /\ sets' = ss
          /\ slot' = JoinCycle(slot, ss, m)
    /\ UNCHANGED <<built, prevClosure, lastCall>>
    /\ UNCHANGED besideGraph

\* the constructor returns
FinishBuild ==
    /\ ~built
    /\ built' = TRUE
    /\ UNCHANGED <<forward, reverse, slot, sets, prevClosure, lastCall>>
    /\ UNCHANGED besideGraph

\* a leaf: a module with no in-edges in the reverse index, that is, one that
\* is the dependent of no module
IsLeaf(rv, l) == \A k \in GMods : l \notin rv[k]

\* the entries of a call: <<module id, scope, extra dependency>>; the extra
\* dependency is any other module, of the global namespace or of a scope
Entries == {e \in GMods \X Scopes \X GMods : e[3] # e[1]}

\* the arguments of a call: at most k entries
RECURSIVE Calls(_)
Calls(k) ==
    IF k = 0 THEN {{}}
    ELSE LET fewer == Calls(k - 1)
         IN fewer \cup {E \cup {e} : E \in fewer, e \in Entries}

\* every non-empty argument within the bound
AllCalls == Calls(MaxEdges) \ {{}}

\* the modules an entry reaches: those of its scope that no module imports
\* and that are the module the entry names or depend on it. Dynamic
\* dependencies are only applied to the nodes of the graph that are not
\* imported by any other module (validator.py, validate_folder); in
\* test_graph.py it is test_tracker, which no module imports, that gains
\* the extra dependency
Inheritors(e) ==
    {m \in GMods : /\ ScopeOf(m) = e[2]
                   /\ reverse[m] = {}
                   /\ (m = e[1] \/ e[1] \in Closure(m))}

\* an overlay that reaches the named module alone, not the modules that
\* depend on it
InheritorsLeafOnly(e) ==
    {m \in GMods : ScopeOf(m) = e[2] /\ reverse[m] = {} /\ m = e[1]}

OverlayTargets(e) == Inheritors(e)

\* what an entry adds to a closure: its extra dependency and what that
\* module depends on (test_graph.py: prunepytest.vcs comes with
\* prunepytest.vcs.git)
Extras(g, e) == {e[3]} \cup g.sets[slot[e[3]]]

\* an entry that extends the closures and leaves the reverse index alone
ApplyEntryNoReverse(g, e) ==
    [sets |-> Extend(g.sets, slot, OverlayTargets(e), Extras(g, e)),
     reverse |-> g.reverse]

\* one entry applied to the indices (rv, ss): the closure of every target
\* grows, and the targets become dependents of the extra dependency
ApplyEntry(g, e) ==
    LET targets == OverlayTargets(e)
    IN [sets |-> Extend(g.sets, slot, targets, Extras(g, e)),
        reverse |-> [g.reverse EXCEPT ![e[3]] = @ \cup targets]]

\* every entry applied once
RECURSIVE ApplyOnce(_, _)
ApplyOnce(g, es) ==
    IF es = {} THEN g
    ELSE LET e == CHOOSE x \in es : TRUE
         IN ApplyOnce(ApplyEntry(g, e), es \ {e})

\* the entries applied until no closure grows: an extra dependency that is
\* itself a target of the call brings what it gained
RECURSIVE ApplyAll(_, _)
ApplyAll(g, es) ==
    LET h == ApplyOnce(g, es)
    IN IF h = g THEN g ELSE ApplyAll(h, es)

\* the ids of the entries of E that are not leaves
NonLeaves(E) == {e[1] : e \in {x \in E : ~IsLeaf(reverse, x[1])}}

\* add_dynamic_dependencies_at_leaves(E). A call whose ids are all leaves
\* installs every entry. For a call that names a module that is not a leaf
\* the sources give two outcomes, and both are kept: the documented one,
\* where the call fails and the graph is left as it was, and the one of
\* test_graph.py, where the calls that name prunepytest.tracker and
\* tracker_helper (each imports and is imported) return and the entry is
\* installed
AddDynamicDependenciesAtLeaves(E) ==
    /\ built
    /\ lastCall.kind = "none"
    /\ prevClosure' = [m \in GMods |-> Closure(m)]
    /\ \/ /\ NonLeaves(E) # {}
          /\ lastCall' = [kind |-> "failed", entries |-> E,
                          nonleaf |-> NonLeaves(E)]
          /\ UNCHANGED <<sets, reverse>>
       \/ LET g == ApplyAll([sets |-> sets, reverse |-> reverse], E)
          IN /\ sets' = g.sets
             /\ reverse' = g.reverse
             /\ lastCall' = [kind |-> "ok", entries |-> E,
                             nonleaf |-> NonLeaves(E)]
    /\ UNCHANGED <<forward, slot, built>>
    /\ UNCHANGED besideGraph

NoCall == [kind |-> "none", entries |-> {}, nonleaf |-> {}]

GraphInit ==
    /\ forward = [m \in GMods |-> {}]
    /\ reverse = [m \in GMods |-> {}]
    /\ slot = [m \in GMods |-> m]
    /\ sets = [h \in GMods |-> {}]
    /\ built = FALSE
    /\ prevClosure = [m \in GMods |-> {}]
    /\ lastCall = NoCall

\* ------------------------------------------------------- the graph loader
\* The options of a run: --tf-novalidate, --tf-noselect, whether --tf-graph
\* names an existing file, and whether the hook in use has a package_map
\* method. No hook class of api.py defines one, ZeroConfHook included.
XCfgs == [novalidate : BOOLEAN, noselect : BOOLEAN, given : BOOLEAN,
          package_map : BOOLEAN]
NoCfg == [novalidate |-> FALSE, noselect |-> FALSE, given |-> FALSE,
          package_map |-> FALSE]
NoLoader == [graph |-> "none", how |-> "none"]

\* GraphLoader.load: how the graph is obtained, and whether it is saved.
\* A worker reads the shared path, and from_file raises when no file is
\* there. Any other process reads the file when there is one and builds the
\* graph otherwise: load_import_graph then calls hook.package_map(), an
\* AttributeError on a hook without that method. graph = "error" stands for
\* the exception: GraphLoader.graph stays None and nothing is saved.
GraphLoaderLoad(is_worker, is_controller_, is_file, has_package_map) ==
    IF is_worker
    THEN [graph |-> IF is_file THEN "loaded" ELSE "error",
          how |-> "from_file", saves |-> FALSE]
    ELSE IF is_file
    THEN [graph |-> "loaded", how |-> "from_file", saves |-> FALSE]
    ELSE IF has_package_map
    THEN [graph |-> "loaded", how |-> "built", saves |-> is_controller_]
    ELSE [graph |-> "error", how |-> "built", saves |-> FALSE]

\* the options and the graph file of a run without xdist, before any hook
LoaderInit ==
    /\ xcfg \in {c \in XCfgs : ~c.novalidate /\ ~c.noselect}
    /\ graph_file = IF xcfg.given THEN "given" ELSE "absent"

\* ------------------------------------------------------------ the selector
\* PruneSelector: the files of a small repository, the module each python
\* file holds, and the items pytest collected from it
SelFiles == {"t/test_a.py", "t/test_b.py", "s/lib.py", "t/case.test", "notes.txt"}
PyFiles == {"t/test_a.py", "t/test_b.py", "s/lib.py"}
TestFiles == {"t/test_a.py", "t/test_b.py"}
ModuleOf(f) ==
    CASE f = "t/test_a.py" -> "t.test_a"
      [] f = "t/test_b.py" -> "t.test_b"
      [] f = "s/lib.py" -> "s.lib"
NoData == ""
NotCalled == [called |-> FALSE, items |-> <<>>]
Collected ==
    << [file |-> "t/test_a.py", data |-> NoData, name |-> "test_one"],
       [file |-> "t/test_b.py", data |-> NoData, name |-> "test_two"],
       [file |-> "t/test_b.py", data |-> "t/case.test", name |-> "case"] >>
AlwaysRunnable == {"t/test_a.py", "t/case.test", "test_two"}

\* g.file_depends_on(file) is not None
FileKnown(g, f) == f \in g.known

\* g.affected_by_files(paths): the files of the graph that depend on a path
AffectedByFiles(g, paths) == {f \in g.known : g.deps[f] \cap paths # {}}

\* g.affected_by_modules({"importlib", "__import__"}): module ids
DynAffectedModules(g) == {ModuleOf(f) : f \in g.dyn}

\* selector.py 107-116
HasUnhandledDynImports(g, overrides) ==
    IF ~overrides THEN DynAffectedModules(g) ELSE {}

\* _BaseSelector.actual_test_file: the cache of covered files after the call
ActualTestFile(g, cov, item) ==
    IF item.file \in DOMAIN cov THEN cov
    ELSE [f \in DOMAIN cov \cup {item.file} |->
             IF f = item.file THEN FileKnown(g, f) ELSE cov[f]]

\* _BaseSelector.should_keep
ShouldKeep(cov, item, affected, ar) ==
    \/ ~cov[item.file]
    \/ item.file \in affected
    \/ item.file \in ar
    \/ (item.data # NoData /\ (item.data \in affected \/ item.data \in ar))
    \/ item.name \in ar

RemoveAt(seq, i) == SubSeq(seq, 1, i - 1) \o SubSeq(seq, i + 1, Len(seq))

\* the file of an item dropped from `remaining` whether covered or not
DiscardSeenAlways(rem, cov, item) == rem \ {item.file, item.data}

\* selector.py 137-140
DiscardSeen(rem, cov, item) ==
    (IF cov[item.file] THEN rem \ {item.file} ELSE rem) \ {item.data}

\* selector.py 132-148: the loop from the end of the list, at index i
RECURSIVE SelectLoop(_, _, _, _, _)
SelectLoop(st, i, g, affected, dyn) ==
    IF i < 1 THEN st
    ELSE LET item == st.items[i]
             cov == ActualTestFile(g, st.covered, item)
             rem == DiscardSeen(st.remaining, cov, item)
             keep == ShouldKeep(cov, item, affected, always_run)
                        \/ item.file \in dyn
             nxt == [items |-> IF keep THEN st.items ELSE RemoveAt(st.items, i),
                     skipped |-> IF keep THEN st.skipped
                                 ELSE Append(st.skipped, item),
                     remaining |-> rem,
                     covered |-> cov]
         IN SelectLoop(nxt, i - 1, g, affected, dyn)

\* hook.filter_irrelevant_files
FilterIrrelevantFiles(files) == files \ irrelevant

\* selector.py 150-152
Unhandled(g, rem) ==
    FilterIrrelevantFiles({x \in rem \ always_run : ~FileKnown(g, x)})

\* PruneSelector.pytest_collection_modifyitems
PytestCollectionModifyitems ==
    /\ selpc = "ready"
    /\ LET g == filegraph
           affected == AffectedByFiles(g, modified) \cup modified
           dyn == HasUnhandledDynImports(g, hook_overrides)
           st == SelectLoop([items |-> items, skipped |-> <<>>,
                             remaining |-> modified,
                             covered |-> covered_files],
                            Len(items), g, affected, dyn)
       IN /\ covered_files' = st.covered
          /\ IF Unhandled(g, st.remaining) # {}
             THEN /\ items' = st.items \o st.skipped
                  /\ UNCHANGED deselected
             ELSE /\ items' = st.items
                  /\ deselected' = [called |-> TRUE, items |-> st.skipped]
    /\ selpc' = "done"
    /\ UNCHANGED <<modified, always_run, filegraph, hook_overrides, irrelevant,
                   impact>>
    /\ UNCHANGED <<trackerVars, hostVars, histVars, graphVars, dynVars,
                   fileVars, valVars, plugVars, sideVars>>

\* os.path.splitext(f)[1]
ExtOf(f) ==
    CASE f \in PyFiles -> ".py"
      [] f = "t/case.test" -> ".test"
      [] f = "notes.txt" -> ".txt"

\* the commits that PruneImpact goes through, each with the files that
\* vcs.modified_files gives for it: the commit of `modified` or not, then
\* up to MaxCommits - 1 others
MaxCommits == 2
CommitFiles == {{"s/lib.py"}, {"notes.txt"}, {"t/case.test"}}
CommitTails == UNION {[1..n -> CommitFiles] : n \in 0..(MaxCommits - 1)}

\* selector.py 245-249: the loop over the items for one commit, from item i
RECURSIVE ImpactItems(_, _, _, _)
ImpactItems(st, i, g, relevant) ==
    IF i > Len(items) THEN st
    ELSE LET item == items[i]
             cov == ActualTestFile(g, st.covered, item)
             keep == ShouldKeep(cov, item, relevant, always_run)
         IN ImpactItems([covered |-> cov,
                         kept |-> IF keep THEN st.kept + 1 ELSE st.kept,
                         pruned |-> IF keep THEN st.pruned
                                    ELSE st.pruned + 1],
                        i + 1, g, relevant)

\* selector.py 226-251: the loop over the commits, from commit k
RECURSIVE ImpactCommits(_, _, _, _)
ImpactCommits(st, commits, k, g) ==
    IF k > Len(commits) THEN st
    ELSE LET affected == AffectedByFiles(g, commits[k]) \cup commits[k]
             relevant == FilterIrrelevantFiles(affected)
             types == ({ExtOf(f) : f \in relevant} \ {".py", ".pyi", ".pyx"})
                          \ {".test"}
             r == ImpactItems([covered |-> st.covered, kept |-> 0,
                               pruned |-> 0], 1, g, relevant)
         IN IF types # {}
            THEN ImpactCommits(
                     [st EXCEPT !.log = Append(@, [kind |-> "unhandled",
                                                   types |-> types,
                                                   kept |-> Len(items)])],
                     commits, k + 1, g)
            ELSE ImpactCommits(
                     [covered |-> r.covered,
                      log |-> Append(st.log, [kind |-> "pruned",
                                              types |-> {},
                                              kept |-> r.kept])],
                     commits, k + 1, g)

\* PruneImpact.pytest_collection_modifyitems: nothing is run, every item is
\* handed to pytest_deselected in collection order and the list is emptied
ImpactCollectionModifyitems(head, tail) ==
    /\ selpc = "ready"
    /\ LET commits == IF head THEN <<modified>> \o tail ELSE tail
           st == ImpactCommits([covered |-> covered_files, log |-> <<>>],
                               commits, 1, filegraph)
       IN /\ covered_files' = st.covered
          /\ impact' = st.log
    /\ deselected' = [called |-> TRUE, items |-> items]
    /\ items' = <<>>
    /\ selpc' = "measured"
    /\ UNCHANGED <<modified, always_run, filegraph, hook_overrides, irrelevant>>
    /\ UNCHANGED <<trackerVars, hostVars, histVars, graphVars, dynVars,
                   fileVars, valVars, plugVars, sideVars>>

\* plugin.py 425-433: the loop of TestfullySelect from the end of the list
RECURSIVE TfSelectLoop(_, _, _)
TfSelectLoop(st, i, affected) ==
    IF i < 1 THEN st
    ELSE LET item == st.items[i]
             keep == item.file \in affected
             nxt == [items |-> IF keep THEN st.items ELSE RemoveAt(st.items, i),
                     skipped |-> IF keep THEN st.skipped
                                 ELSE Append(st.skipped, item)]
         IN TfSelectLoop(nxt, i - 1, affected)

\* TestfullySelect.pytest_collection_modifyitems, in a process that is not
\* an xdist worker: graph.get(session) comes first, and when it raises the
\* hook ends there, the items as collected and pytest_deselected not called
TfPytestCollectionModifyitems ==
    /\ selpc = "ready"
    /\ LET r == GraphLoaderLoad(FALSE, FALSE, graph_file # "absent",
                                xcfg.package_map)
           affected == AffectedByFiles(filegraph, modified) \cup modified
           st == TfSelectLoop([items |-> items, skipped |-> <<>>],
                              Len(items), affected)
       IN IF r.graph = "error"
          THEN /\ selpc' = "raised"
               /\ UNCHANGED <<items, deselected, ctl>>
          ELSE /\ items' = st.items
               /\ deselected' = [called |-> TRUE, items |-> st.skipped]
               /\ ctl' = [ctl EXCEPT !.graph = r.graph, !.how = r.how]
               /\ selpc' = "done"
    /\ UNCHANGED <<modified, always_run, filegraph, hook_overrides, irrelevant,
                   covered_files, impact>>
    /\ UNCHANGED <<trackerVars, hostVars, histVars, graphVars, dynVars,
                   fileVars, valVars, plugVars, machVars, confVars,
                   xcfg, graph_file, workers>>

\* no selector yet
SelIdle ==
    /\ modified = {}
    /\ always_run = {}
    /\ filegraph = [known |-> {}, deps |-> [f \in PyFiles |-> {}], dyn |-> {}]
    /\ hook_overrides = FALSE
    /\ irrelevant = {}
    /\ items = <<>>
    /\ covered_files = <<>>
    /\ deselected = NotCalled
    /\ selpc = "idle"
    /\ impact = <<>>

\* a selector constructed for some modified set, hook and graph, and the
\* collection handed to it
SelInit ==
    /\ modified \in SUBSET SelFiles
    /\ always_run \in SUBSET AlwaysRunnable
    /\ \E known \in SUBSET PyFiles, users, dynUsers \in SUBSET TestFiles :
        /\ users \subseteq known
        /\ "s/lib.py" \in known \/ users = {}
        /\ dynUsers \subseteq known
        /\ filegraph = [known |-> known,
                        deps |-> [f \in PyFiles |->
                                    IF f \in users THEN {"s/lib.py"} ELSE {}],
                        dyn |-> dynUsers]
    /\ hook_overrides \in BOOLEAN
    /\ irrelevant \in SUBSET {"notes.txt"}
    /\ items = Collected
    /\ covered_files = <<>>
    /\ deselected = NotCalled
    /\ selpc = "ready"
    /\ impact = <<>>

\* ------------------------------------------------- dynamic import tracking
\* The tracker started with record_dynamic on. The package p is a helper
\* module: its functions f and K.g (a method, frame name g) import a module
\* by name; f may call g, and nothing else does. The other modules are imported by the test, by
\* module bodies and by the helper functions, statically or dynamically.
\* Runs start after the test imported p, and every module imported exists.
MaxDynLoads == 3    \* imports executed in one run with record_dynamic on
MaxNested == 2      \* module bodies in execution at one time
Helper == "p"
TrackerFile == "testfully/tracker.py"
Bootstrap == "<frozen importlib._bootstrap>"
BootstrapExternal == "<frozen importlib._bootstrap_external>"
ImportlibFile == "importlib/__init__.py"
TestFile == "tests/test_tracker.py"
IGNORED_FRAMES == {TrackerFile, Bootstrap, BootstrapExternal}

\* m.__file__
FileOf(m) ==
    CASE m = "p" -> "p/__init__.py"
      [] m = "p.a" -> "p/a.py"
      [] m = "p.b" -> "p/b.py"
      [] m = "p.c" -> "p/c.py"
      [] m = "p.d" -> "p/d.py"
ModFiles == {FileOf(m) : m \in Mods}
NoMod == "None"
NoAnchor == <<>>

\* the functions of the helper module, by frame name, and the selectors that
\* dynamic_anchors and dynamic_ignores may list for them
FnNames == {"f", "g"}
AnchorChoices == {<<Helper, "f">>, <<Helper, "K.g">>}
IgnoreChoices == {<<Helper, "f">>, <<Helper, "g">>}
\* every (module, function) pair that can become a key of dynamic_imports
AnchorKeys == (Mods \X {"<module>"}) \cup ({Helper} \X {"f", "g", "K.g"})

\* a.rpartition('.')[2]
RPart(a) == IF a = "K.g" THEN "g" ELSE a

\* a frame of traceback.extract_stack(): file name, function name and the
\* kind of source line the frame is executing
Frame(file, name, line) == [file |-> file, name |-> name, line |-> line]
TestFrame == Frame(TestFile, "test", "")
\* importlib frames between a call site and the hook
ViaImportModule ==
    <<Frame(ImportlibFile, "import_module", ""),
      Frame(Bootstrap, "_gcd_import", "")>>
ViaImport ==
    <<Frame(TrackerFile, "_builtins_import_no_cache", ""),
      Frame(Bootstrap, "__import__", ""),
      Frame(Bootstrap, "_gcd_import", "")>>
HookFrame == Frame(TrackerFile, "_new_find_and_load", "")
\* frames between the hook and the body of the module it loads
LoaderFrames ==
    <<Frame(TrackerFile, "_find_and_load_helper", ""),
      Frame(Bootstrap, "_find_and_load", ""),
      Frame(BootstrapExternal, "exec_module", ""),
      Frame(Bootstrap, "_call_with_frames_removed", "")>>
\* importlib.__import__ called by import_with_capture of the validator
ViaValidator ==
    <<Frame(Bootstrap, "__import__", ""),
      Frame(Bootstrap, "_gcd_import", "")>>
\* the three ways an import of the test or of a module reaches the hook
Hows == {"import", "import_module", "__import__("}
Via(how) ==
    CASE how = "import_module" -> ViaImportModule
      [] how = "importlib.__import__" -> ViaValidator
      [] OTHER -> ViaImport

\* tb[k] of the source, k counted from 0
At(t, k) == t[k + 1]

is_validator_frame(frame) ==
    frame.name = "import_with_capture" /\ frame.file = "validator.py"

\* record_dynamic_imports, first loop: walk up from the hook until a dynamic
\* entry point, or the stack height of the previous dynamic import
RECURSIVE FindDynamic(_, _, _)
FindDynamic(t, prev_stack, i) ==
    LET n == Len(t) IN
    IF i >= n \/ prev_stack = n - i THEN -1
    ELSE LET frame == At(t, n - i) IN
         IF frame.name \in {"import_module", "load_module"} THEN n - i
         ELSE IF frame.name = "__import__"
         THEN IF n - i - 1 > 0 /\ At(t, n - i - 1).file = TrackerFile
              THEN FindDynamic(t, prev_stack, i + 2)
              ELSE n - i
         ELSE IF frame.line = "__import__(" THEN n - i + 1
         ELSE FindDynamic(t, prev_stack, i + 1)

\* the validator frames of tb[prev_stack:found], by their index in the slice
ValidatorIdx(t, prev_stack, found) ==
    {i \in 0..(found - prev_stack - 1) : is_validator_frame(At(t, prev_stack + i))}
Max(S, default) == IF S = {} THEN default ELSE CHOOSE x \in S : \A y \in S : y <= x
\* the first frame of the relevant slice of the backtrace
WalkStart(t, prev_stack, found) ==
    prev_stack + 1 + Max(ValidatorIdx(t, prev_stack, found), -1)

\* file_to_module.get(filename)
GetModule(ftm, file) == IF file \in DOMAIN ftm THEN ftm[file] ELSE NoMod
SetModule(ftm, file, mod) ==
    IF file \in DOMAIN ftm THEN [ftm EXCEPT ![file] = mod] ELSE ftm

IgnoreMatch(ignores, mod, name) == <<mod, name>> \in ignores
AnchorMatch(anchors, mod, name) ==
    \E a \in anchors : a[1] = mod /\ (a[2] = name \/ RPart(a[2]) = name)
\* the loop with its anchor check left out
FrameRuleNoAnchor(anchors, ignores, mod, name) ==
    IF IgnoreMatch(ignores, mod, name) THEN "ignore" ELSE "none"

\* what the loop does with a resolved frame of the relevant slice
FrameRule(anchors, ignores, mod, name) ==
    IF IgnoreMatch(ignores, mod, name) THEN "ignore"
    ELSE IF AnchorMatch(anchors, mod, name) THEN "anchor"
    ELSE "none"

\* record_dynamic_imports, second loop, from frame i on. w holds the loop's
\* variables and the file_to_module map.
RECURSIVE AnchorLoop(_, _, _, _, _, _, _)
AnchorLoop(t, found, start, stk, anchors, ignores, w) ==
    IF w.i >= found
    THEN [w EXCEPT !.anchor = w.last_candidate]
    ELSE
    LET frame == At(t, w.i)
        helper == frame.file = TrackerFile /\ frame.name = "_find_and_load_helper"
        stack_off == IF helper THEN w.stack_off + 1 ELSE w.stack_off
        fresh_import == helper \/ w.fresh_import
        w1 == [w EXCEPT !.i = w.i + 1, !.stack_off = stack_off]
    IN
    IF frame.file \in IGNORED_FRAMES
    THEN AnchorLoop(t, found, start, stk, anchors, ignores,
                    [w1 EXCEPT !.fresh_import = fresh_import])
    ELSE
    LET known == GetModule(w.ftm, frame.file)
        resolve == known = NoMod /\ fresh_import
        mod == IF resolve THEN At(stk, stack_off) ELSE known
        w2 == [w1 EXCEPT !.fresh_import = FALSE,
                         !.ftm = IF resolve
                                 THEN SetModule(w.ftm, frame.file, mod)
                                 ELSE w.ftm]
    IN
    IF w.i < start \/ mod = NoMod
    THEN AnchorLoop(t, found, start, stk, anchors, ignores, w2)
    ELSE
    LET rule == FrameRule(anchors, ignores, mod, frame.name) IN
    IF rule = "ignore" THEN [w2 EXCEPT !.ignored = TRUE]
    ELSE IF rule = "anchor" THEN [w2 EXCEPT !.anchor = <<mod, frame.name>>]
    ELSE AnchorLoop(t, found, start, stk, anchors, ignores,
                    IF BaseNs(mod) \in prefixes
                    THEN [w2 EXCEPT !.last_candidate = <<mod, frame.name>>]
                    ELSE w2)

\* Tracker.record_dynamic_imports(tb): the pair returned, with the fields
\* the call assigns (file_to_module, dynamic_stack)
RecordDynamicImports(t, prev_stack, ftm, stk, anchors, ignores) ==
    LET found == FindDynamic(t, prev_stack, 2)
        static == [idx |-> -1, anchor |-> NoAnchor, ftm |-> ftm,
                   dynamic_stack |-> prev_stack, found |-> found,
                   start |-> 0]
    IN
    IF found = -1 THEN static
    ELSE IF is_validator_frame(At(t, found - 1)) THEN static
    ELSE
    LET start == WalkStart(t, prev_stack, found)
        w == AnchorLoop(t, found, start, stk, anchors, ignores,
                [i |-> 0, stack_off |-> 0, fresh_import |-> FALSE,
                 ftm |-> ftm, anchor |-> NoAnchor,
                 last_candidate |-> NoAnchor, ignored |-> FALSE])
    IN
    IF w.ignored
    THEN [static EXCEPT !.ftm = w.ftm, !.start = start]
    ELSE [idx |-> prev_stack, anchor |-> w.anchor, ftm |-> w.ftm,
          dynamic_stack |-> Len(t), found |-> found, start |-> start]

\* --------------------------------------- the host, with record_dynamic on
NoWalk == [tb |-> <<>>, found |-> -1, start |-> 0, idx |-> -1,
           anchor |-> NoAnchor, importer |-> Root]
NoDone == [kind |-> "none", name |-> Root, anchor |-> NoAnchor,
           importer |-> Root, loader |-> Root, users0 |-> {}]

\* The tracker treats p.a, p.b, p.c and p.d alike, so runs are explored up
\* to a renaming of the four: each is first imported after the one before.
InDynOrder(name) ==
    CASE name = "p.b" -> "p.a" \in sysmodules
      [] name = "p.c" -> "p.b" \in sysmodules
      [] name = "p.d" -> "p.c" \in sysmodules
      [] OTHER -> TRUE

\* how the code of a frame imports: the test by an import statement or by
\* import_module, a module body by an import statement, f by import_module
\* and g by the builtin __import__
ImportsBy(frame, how) ==
    CASE frame.name = "test" -> how \in {"import", "import_module"}
      [] frame.name = "<module>" -> how = "import"
      [] frame.name = "f" -> how = "import_module"
      [] frame.name = "g" -> how = "__import__("
      [] OTHER -> FALSE

\* the frame on top runs code of the test or of a tracked module
UserTop(t) == t # <<>> /\ Top(t).file \in ModFiles \cup {TestFile}
SetLine(t, line) == SetTop(t, [Top(t) EXCEPT !.line = line])

\* wrapped_fn of add_dynamic_usage_recorder, for the selectors sels of one
\* function: every caller on the stack that file_to_module resolves to a
\* tracked module becomes a user
RecordUsage(users, ftm, t, sels) ==
    LET callers == {GetModule(ftm, t[i].file) : i \in 1..Len(t)} \ {NoMod}
    IN [m \in DOMAIN users |->
          IF m \in callers /\ BaseNs(m) \in prefixes
          THEN users[m] \cup sels ELSE users[m]]

\* _find_and_load_helper from the return of the underlying loader, then the
\* finally clause of _new_find_and_load, for the invocation c; t, users and
\* ftm are the tracker's fields when the loader returns
FinishLoad(c, t, users, ftm, dstack, below) ==
    LET name == c.name
        parent == Parent(name)
        reify == parent # Root /\ parent \notin t.heap[t.cxt]
                 /\ t.tracked[parent] # NoRef
        users2 == IF reify
                  THEN [users EXCEPT ![name] = @ \cup users[parent]]
                  ELSE users
        t2 == HelperExit(t, name, c.new_context, FALSE)
        top == t2.stack[Len(t2.stack)]
        users3 == IF c.dyn
                  THEN [users2 EXCEPT ![top] = @ \cup users2[name]]
                  ELSE users2
        marked == c.dyn /\ c.dynamic_anchor # NoAnchor
    IN
    /\ SetTracker(t2)
    /\ file_to_module' = SetModule(ftm, FileOf(name), name)
    /\ wrapped' = wrapped \cup {a \in dynamic_anchors : a[1] = name}
    /\ dynamic_users' = users3
    /\ dynamic_stack' = IF c.dyn THEN c.dynamic_idx ELSE dstack
    /\ dynamic_imports' =
         IF marked
         THEN [dynamic_imports EXCEPT ![c.dynamic_anchor] =
                 @ \cup (t2.heap[t2.cxt] \ c.dynamic_base)]
         ELSE dynamic_imports
    /\ tb' = SetLine(below, "")
    /\ lastDone' = [kind |-> IF c.dyn THEN "dynamic" ELSE "static",
                    name |-> name, anchor |-> c.dynamic_anchor,
                    importer |-> c.importer, loader |-> top,
                    users0 |-> c.users0]
    /\ dynLog' = IF marked /\ c.new_context
                 THEN dynLog \cup {<<c.importer, c.dynamic_anchor, name>>}
                 ELSE dynLog

\* _new_find_and_load(name), reached in the way `how` from the frame on top,
\* up to the call of the underlying loader; a name found in sys.modules is
\* returned at once and the hook ends in this step.
FindAndLoad(name, how) ==
    /\ LET caller == SetLine(tb, IF how = "__import__(" THEN how ELSE "")
           t == caller \o Via(how) \o <<HookFrame>>
       IN
       \E r \in {RecordDynamicImports(t, dynamic_stack, file_to_module, stack,
                                      dynamic_anchors, dynamic_ignores)},
          e \in {HelperEntry(Cur, name)} :
       LET dyn == r.idx # -1
           marked == dyn /\ r.anchor # NoAnchor
           importer == stack[Len(stack)]
           users1 == IF marked
                     THEN [dynamic_users EXCEPT ![importer] = @ \cup {r.anchor}]
                     ELSE dynamic_users
           c == [name |-> name, new_context |-> e.new_context, dyn |-> dyn,
                 dynamic_idx |-> r.idx, dynamic_anchor |-> r.anchor,
                 dynamic_base |-> IF marked THEN heap[cxt] ELSE {},
                 importer |-> importer, users0 |-> dynamic_users[name],
                 how |-> how, depth |-> Len(tb)]
       IN /\ lastWalk' = [tb |-> t, found |-> r.found, start |-> r.start,
                          idx |-> r.idx, anchor |-> r.anchor,
                          importer |-> importer]
          /\ IF name \in sysmodules
             THEN /\ FinishLoad(c, e.t, users1, r.ftm, r.dynamic_stack, tb)
                  /\ UNCHANGED <<sysmodules, calls>>
             ELSE /\ SetTracker(e.t)
                  /\ sysmodules' = sysmodules \cup {name}
                  /\ calls' = Append(calls, c)
                  /\ tb' = t \o LoaderFrames
                             \o <<Frame(FileOf(name), "<module>", "")>>
                  /\ dynamic_users' = users1
                  /\ file_to_module' = r.ftm
                  /\ dynamic_stack' = r.dynamic_stack
                  /\ lastDone' = NoDone
                  /\ UNCHANGED <<dynamic_imports, wrapped, dynLog>>
    /\ UNCHANGED <<dynamic_anchors, dynamic_ignores, frames, imports,
                   histVars>>

\* the frame on top imports name: an import statement, a call of
\* importlib.import_module or a call of the builtin __import__
ImportAny(name, how) ==
    /\ UserTop(tb)
    /\ ImportsBy(Top(tb), how)
    /\ nloads < MaxDynLoads
    /\ Len(calls) < MaxNested \/ name \in sysmodules
    /\ BaseNs(name) \in prefixes
    /\ nloads' = nloads + 1
    /\ FindAndLoad(name, how)
    /\ UNCHANGED besideDyn

\* the same, the modules taken in the order of their names
DynImport(name, how) ==
    /\ InDynOrder(name)
    /\ ImportAny(name, how)

\* the body of the module being loaded ends: the underlying loader returns
BodyEnd ==
    /\ tb # <<>>
    /\ Top(tb).name = "<module>"
    /\ LET c == Top(calls) IN
       /\ FinishLoad(c, Cur, dynamic_users, file_to_module, dynamic_stack,
                     SubSeq(tb, 1, c.depth))
       /\ calls' = Pop(calls)
    /\ lastWalk' = NoWalk
    /\ UNCHANGED <<dynamic_anchors, dynamic_ignores, sysmodules,
                   frames, imports, nloads, histVars, besideDyn>>

\* the frame on top calls function fn of the helper module; a function
\* wrapped by add_dynamic_usage_recorder records its callers first
DynCall(fn) ==
    /\ UserTop(tb)
    /\ Top(tb).name # "g"
    /\ Top(tb).name = "f" <=> fn = "g"
    /\ LET sels == {a[2] : a \in {x \in wrapped :
                                    x[1] = Helper /\ RPart(x[2]) = fn}}
           recorded == {<<Helper, s>> : s \in sels}
       IN IF recorded # {}
          THEN /\ dynamic_users' = RecordUsage(dynamic_users, file_to_module,
                                               tb, recorded)
               /\ tb' = tb \o <<Frame(TrackerFile, "wrapped_fn", ""),
                                Frame(FileOf(Helper), fn, "")>>
          ELSE /\ tb' = Append(tb, Frame(FileOf(Helper), fn, ""))
               /\ UNCHANGED dynamic_users
    /\ lastWalk' = NoWalk
    /\ lastDone' = NoDone
    /\ UNCHANGED <<dynamic_imports, dynamic_stack, file_to_module,
                   dynamic_anchors, dynamic_ignores, wrapped, calls, dynLog>>
    /\ UNCHANGED <<trackerVars, hostVars, histVars, besideDyn>>

\* the function on top returns, through its recorder when it has one
DynReturn ==
    /\ tb # <<>>
    /\ Top(tb).name \in FnNames
    /\ tb' = IF Top(Pop(tb)).name = "wrapped_fn" THEN Pop(Pop(tb)) ELSE Pop(tb)
    /\ lastWalk' = NoWalk
    /\ lastDone' = NoDone
    /\ UNCHANGED <<dynamic_imports, dynamic_users, dynamic_stack,
                   file_to_module, dynamic_anchors, dynamic_ignores, wrapped,
                   calls, dynLog>>
    /\ UNCHANGED <<trackerVars, hostVars, histVars, besideDyn>>

\* with_dynamic without the imports of the anchors that m uses
WithDynamicOwn(m) == heap[tracked[m]]

\* Tracker.with_dynamic(m)
WithDynamic(m) ==
    heap[tracked[m]] \cup UNION {dynamic_imports[u] : u \in dynamic_users[m]}

\* no tracker with record_dynamic on
DynIdle ==
    /\ dynamic_imports = [a \in AnchorKeys |-> {}]
    /\ dynamic_users = [m \in Names |-> {}]
    /\ dynamic_stack = 0
    /\ file_to_module = [f \in ModFiles |-> NoMod]
    /\ dynamic_anchors = {}
    /\ dynamic_ignores = {}
    /\ wrapped = {}
    /\ tb = <<>>
    /\ calls = <<>>
    /\ lastWalk = NoWalk
    /\ lastDone = NoDone
    /\ dynLog = {}

\* start_tracking(record_dynamic=True, dynamic_anchors, dynamic_ignores),
\* then the test imported the package p
DynInit ==
    /\ stack = <<Root>>
    /\ cxt = 1
    /\ tracked = [n \in Names |-> CASE n = Root -> 1 [] n = Helper -> 2
                                    [] OTHER -> NoRef]
    /\ heap = [r \in Refs |-> IF r = 1 THEN {Helper} ELSE {}]
    /\ nrefs = 2
    /\ sysmodules = {Helper}
    /\ frames = <<>>
    /\ imports = [m \in Names |-> {}]
    /\ nloads = 0
    /\ anyFail = FALSE
    /\ completed = [m \in Mods |-> {}]
    /\ last = NoEvent
    /\ lastConsol = NoConsol
    /\ lateLoads = {}
    /\ dynamic_imports = [a \in AnchorKeys |-> {}]
    /\ dynamic_users = [m \in Names |-> {}]
    /\ dynamic_stack = 0
    /\ file_to_module = [f \in ModFiles |->
                           IF f = FileOf(Helper) THEN Helper ELSE NoMod]
    /\ dynamic_anchors \in SUBSET AnchorChoices
    /\ dynamic_ignores \in SUBSET IgnoreChoices
    /\ wrapped = dynamic_anchors
    /\ tb = <<TestFrame>>
    /\ calls = <<>>
    /\ lastWalk = NoWalk
    /\ lastDone = NoDone
    /\ dynLog = {}

\* ------------------------------------------------- the graph and its files
\* The graph built from the files of a source tree. The module g.a has an
\* implementation file and may have an interface file beside it; g.c has an
\* interface file alone.
MaxImports == 3     \* import statements in the files of one source tree

SrcFiles == {"g/a.py", "g/a.pyi", "g/b.py", "g/c.pyi", "t/x.py", "t/y.py"}
\* the trees differ by the presence of the interface file of g.a
Presents == {SrcFiles, SrcFiles \ {"g/a.pyi"}}
\* the id of the module that a file holds
IdOf(f) ==
    CASE f \in {"g/a.py", "g/a.pyi"} -> "g.a"
      [] f = "g/b.py" -> "g.b"
      [] f = "g/c.pyi" -> "g.c"
      [] f = "t/x.py" -> "t.x"
      [] f = "t/y.py" -> "t.y"
IsInterface(f) == f \in {"g/a.pyi", "g/c.pyi"}
\* what a query returns for a path or an id that the graph does not know
Absent == {NoMod}

\* the import statements a tree may hold: <<file, id it resolves to>>
ImportPairs == {q \in SrcFiles \X GMods : Resolvable(IdOf(q[1]), q[2])}
RECURSIVE PairSets(_)
PairSets(k) ==
    IF k = 0 THEN {{}}
    ELSE LET fewer == PairSets(k - 1)
         IN fewer \cup {E \cup {e} : E \in fewer, e \in ImportPairs}
TreeOf(present, E) ==
    [f \in present |-> {q[2] : q \in {x \in E : x[1] = f}}]
Trees ==
    {TreeOf(present, E) : present \in Presents,
                          E \in PairSets(MaxImports)}

\* the file that backs module m: its interface file when it has one
SourceFile(tr, m) ==
    IF \E f \in DOMAIN tr : IdOf(f) = m /\ IsInterface(f)
    THEN CHOOSE f \in DOMAIN tr : IdOf(f) = m /\ IsInterface(f)
    ELSE CHOOSE f \in DOMAIN tr : IdOf(f) = m

\* the files of the file-path index: an implementation file gives way to
\* the interface file of its module
Known(tr, f) == f \in DOMAIN tr /\ SourceFile(tr, IdOf(f)) = f

\* the graph object that the caller holds
GraphNow == [forward |-> forward, reverse |-> reverse,
             slot |-> slot, sets |-> sets]

\* an import merged without the closure of what it imports
MergeEdgeShallow(g, m, n) ==
    IF n \in g.forward[m] THEN g
    ELSE LET targets == {m} \cup Walk(g.reverse, g.reverse[m])
             ss == Extend(g.sets, g.slot, targets, {n})
         IN [forward |-> [g.forward EXCEPT ![m] = @ \cup {n}],
             reverse |-> AddDependent(g.reverse, n, m),
             sets |-> ss,
             slot |-> JoinCycle(g.slot, ss, m)]

\* the resolved import "m imports n" merged into the graph object g
MergeEdge(g, m, n) ==
    IF n \in g.forward[m] THEN g
    ELSE LET new == {n} \cup g.sets[g.slot[n]]
             targets == {m} \cup Walk(g.reverse, g.reverse[m])
             ss == Extend(g.sets, g.slot, targets, new)
         IN [forward |-> [g.forward EXCEPT ![m] = @ \cup {n}],
             reverse |-> AddDependent(g.reverse, n, m),
             sets |-> ss,
             slot |-> JoinCycle(g.slot, ss, m)]

\* every import of one file merged
RECURSIVE MergeAll(_, _, _)
MergeAll(g, m, ns) ==
    IF ns = {} THEN g
    ELSE LET n == CHOOSE x \in ns : TRUE
         IN MergeAll(MergeEdge(g, m, n), m, ns \ {n})

SetGraph(g) ==
    /\ forward' = g.forward
    /\ reverse' = g.reverse
    /\ slot' = g.slot
    /\ sets' = g.sets

\* construction: the imports parsed from file f are merged into the graph
\* under the id of its module, those of an implementation file beside an
\* interface file too: test_pyi has pyi.bar in the closure of pyi.foo and
\* pyi.foo among the modules affected by pyi.bar
ParseFile(f) ==
    /\ ~built
    /\ f \in DOMAIN tree
    /\ f \notin parsed
    /\ parsed' = parsed \cup {f}
    /\ SetGraph(MergeAll(GraphNow, IdOf(f), tree[f]))
    /\ UNCHANGED <<built, prevClosure, lastCall, tree, kept>>
    /\ UNCHANGED besideFiles

\* the constructor returns, every file parsed
FinishParse ==
    /\ parsed = DOMAIN tree
    /\ FinishBuild

\* file_depends_on(path)
FileDependsOn(f) == IF Known(tree, f) THEN Closure(IdOf(f)) ELSE Absent
\* module_depends_on(id)
ModuleDependsOn(m) == Closure(m)
\* the files of the file-path index
KnownFiles == {f \in DOMAIN tree : Known(tree, f)}
\* the indexed files whose module imports, by the reverse index, the module
\* of a file of S
FileDependents(S) ==
    {f \in KnownFiles : \E x \in S : IdOf(f) \in reverse[IdOf(x)]}
\* the files reached from the files of S, dependent after dependent
RECURSIVE FilesAbove(_, _)
FilesAbove(S, seen) ==
    LET more == FileDependents(S) \ seen
    IN IF more = {} THEN seen ELSE FilesAbove(more, seen \cup more)
\* affected_by_files(paths): a path that the index does not hold is passed
\* over (test_pyi: the empty set for pyi/qux.pyi); a file is affected when
\* its module depends, import after import, on the module of a path
GraphAffectedByFiles(P) == FilesAbove(P \cap KnownFiles, {})

NoGraph == [kind |-> "none"]

\* a second graph object o beside the one the caller holds: its closure
\* sets live in the same heap, behind its own slots
ObjDependsOn(o, m) == sets[o.slot[m]]
ObjAffectedByModules(o, seeds) ==
    LET ids == UNION {Lookup(b) : b \in seeds}
    IN Walk(o.reverse, UNION {o.reverse[b] : b \in ids})

\* the set object allocated for the copy of the set object h
CopyOf(h) == h \o "'"

\* a copy that keeps the slots of the original: both graphs hold the same
\* set objects
CloneSlotShared(sl) == sl

\* a deep copy: every set object is copied, and the modules that shared one
\* share its copy
CloneSlot(sl) == [m \in GMods |-> CopyOf(sl[m])]

\* the heap with the set objects of the copy added
CopySets(ss, sl, cs) ==
    [h \in DOMAIN ss \cup {cs[m] : m \in GMods} |->
        IF h \in DOMAIN ss THEN ss[h]
        ELSE ss[sl[CHOOSE m \in GMods : cs[m] = h]]]

\* clone(): the caller goes on with the copy (switch) or with the original,
\* and keeps the other graph aside
Clone(switch) ==
    /\ built
    /\ tree # <<>>
    /\ kept.kind = "none"
    /\ LET cs == CloneSlot(slot)
       IN /\ sets' = CopySets(sets, slot, cs)
          /\ slot' = IF switch THEN cs ELSE slot
          /\ kept' = [kind |-> "clone",
                      forward |-> forward,
                      reverse |-> reverse,
                      slot |-> IF switch THEN slot ELSE cs,
                      closure0 |-> [m \in GMods |-> Closure(m)],
                      affected0 |-> [m \in GMods |-> AffectedByModules({m})],
                      lastCall |-> lastCall]
    /\ UNCHANGED <<forward, reverse, built, prevClosure, lastCall>>
    /\ UNCHANGED <<tree, parsed>>
    /\ UNCHANGED besideFiles

\* add_dynamic_dependencies_at_leaves with one entry, on the graph the
\* caller holds
Overlay(e) ==
    /\ tree # <<>>
    /\ AddDynamicDependenciesAtLeaves({e})

\* no source tree
FilesIdle ==
    /\ tree = <<>>
    /\ parsed = {}
    /\ kept = NoGraph

\* a source tree, none of its files parsed yet
FilesInit ==
    /\ tree \in Trees
    /\ parsed = {}
    /\ kept = NoGraph

\* ----------------------------------------------------------- the validator
\* validate_subset(py_tracked, rust_graph, filter_fn, package): the modules
\* whose imports were tracked, and the names their imports may hold
VMods == {"g.a", "t.x", "t.y"}
VDeps == {"g.a", "g.b"}
\* dicts keyed by some of the modules
PyTrackeds ==
    UNION {[K -> SUBSET VDeps] : K \in SUBSET VMods}
\* module_depends_on gives a set, or nothing for a module that is not in
\* the graph
RustGraphs == [VMods -> (SUBSET VDeps) \cup {Absent}]
\* filter_fn: every module, the modules of the test folder, or none
FilterFns == {VMods, {"t.x", "t.y"}, {}}
\* the orders in which a loop may go over the set S
Orders(S) ==
    {o \in [1..Cardinality(S) -> S] : \A m \in S : \E k \in DOMAIN o : o[k] = m}
\* the items of a dict, in the order in which its keys were inserted: any
\* order of the keys, as the caller filled the dict
ItemsOf(d) == Orders(DOMAIN d)

\* `x or frozenset()`: nothing and the empty set both give the empty set
OrEmpty(x) == IF x = Absent \/ x = {} THEN {} ELSE x

\* a difference taken both ways
RustMissingEither(pydeps, rdeps) == (pydeps \ rdeps) \cup (rdeps \ pydeps)

\* rust_missing = pydeps - rdeps
RustMissing(pydeps, rdeps) == pydeps \ rdeps

\* one turn of the loop
ValidateStep ==
    /\ valpc = "loop"
    /\ todo # <<>>
    /\ LET module == Head(todo)
           pydeps == py_tracked[module]
           rdeps == OrEmpty(rust_graph[module])
           rust_missing == RustMissing(pydeps, rdeps)
       IN IF module \notin filter_fn THEN UNCHANGED <<diff_count, printed>>
          ELSE IF rust_missing # {}
          THEN /\ diff_count' = diff_count + 1
               /\ printed' = Append(printed,
                      [module |-> module, rust |-> Cardinality(rdeps),
                       py |-> Cardinality(pydeps), missing |-> rust_missing])
          ELSE UNCHANGED <<diff_count, printed>>
    /\ todo' = Tail(todo)
    /\ UNCHANGED <<py_tracked, rust_graph, filter_fn, valpc, folder>>
    /\ UNCHANGED besideVal

\* return diff_count
ValidateReturn ==
    /\ valpc = "loop"
    /\ todo = <<>>
    /\ valpc' = "returned"
    /\ UNCHANGED <<py_tracked, rust_graph, filter_fn, todo, diff_count,
                   printed, folder>>
    /\ UNCHANGED besideVal

\* validate_folder is not called
NoFolder == [at |-> "idle", old_k |-> {}, pending |-> {}, imported |-> {},
             result |-> <<>>]

\* validate_subset is not called
ValIdle ==
    /\ py_tracked = <<>>
    /\ rust_graph = <<>>
    /\ filter_fn = {}
    /\ todo = <<>>
    /\ diff_count = 0
    /\ printed = <<>>
    /\ valpc = "idle"
    /\ folder = NoFolder

\* validate_subset is called
ValInit ==
    /\ py_tracked \in PyTrackeds
    /\ rust_graph \in RustGraphs
    /\ filter_fn \in FilterFns
    /\ todo \in ItemsOf(py_tracked)
    /\ diff_count = 0
    /\ printed = <<>>
    /\ valpc = "loop"
    /\ folder = NoFolder

\* ---- validate_folder
\* validate_folder(base, sub, hook, t, g) for the folder of the package p,
\* sub = "p": it holds __init__.py and the test files of FolderTests, the
\* other modules of p are helpers that the test files may import. The
\* tracker t records dynamic imports. No import fails here, so errors
\* stays empty and every test file imported is in `imported`.
FolderTests == {"p.a", "p.b"}
ValidatorFile == "validator.py"
\* the stack when import_with_capture imports
FolderFrames ==
    <<Frame(ValidatorFile, "validate_folder", ""),
      Frame(ValidatorFile, "recursive_import_tests", ""),
      Frame(ValidatorFile, "import_with_capture", "")>>
\* g.module_depends_on(module, package) for the test files of the folder
FolderGraphs == [FolderTests -> {Absent, {"p", "p.c"}}]
MaxFolderLoads == 2    \* imports executed by the modules of the folder
\* the sequences without repetition over the test files
Seq1(S) == UNION {{o \in [1..n -> S] : \A i, j \in 1..n : o[i] = o[j] => i = j} :
                    n \in 0..Cardinality(S)}

\* is_local_test_module
IsLocalTestModule(module) == BaseNs(module) = "p" /\ module \in FolderTests

\* validate_folder up to the call of recursive_import_tests: the keys of
\* sys.modules are remembered
FolderEnter ==
    /\ folder.at = "idle"
    /\ tb = <<>>
    /\ folder' = [at |-> "importing", old_k |-> sysmodules,
                  pending |-> {Helper} \cup FolderTests, imported |-> {},
                  result |-> <<>>]
    /\ tb' = FolderFrames
    /\ lastWalk' = NoWalk
    /\ lastDone' = NoDone
    /\ UNCHANGED <<dynamic_imports, dynamic_users, dynamic_stack,
                   file_to_module, dynamic_anchors, dynamic_ignores, wrapped,
                   calls, dynLog>>
    /\ UNCHANGED <<py_tracked, rust_graph, filter_fn, todo, diff_count,
                   printed, valpc>>
    /\ UNCHANGED <<trackerVars, hostVars, histVars, graphVars, selVars,
                   fileVars, plugVars, sideVars>>

\* recursive_import_tests: import_with_capture imports the package first,
\* then the test files in the order of os.scandir
FolderImport(name) ==
    /\ folder.at = "importing"
    /\ tb = FolderFrames
    /\ name \in folder.pending
    /\ Helper \in folder.pending => name = Helper
    /\ FindAndLoad(name, "importlib.__import__")
    /\ folder' = [folder EXCEPT
                    !.pending = @ \ {name},
                    !.imported = IF name \in FolderTests
                                 THEN @ \cup {name} ELSE @]
    /\ UNCHANGED <<py_tracked, rust_graph, filter_fn, todo, diff_count,
                   printed, valpc>>
    /\ UNCHANGED <<nloads, graphVars, selVars, fileVars, plugVars, sideVars>>

\* a module of the folder imports name while its body or a function runs
FolderBodyImport(name, how) ==
    /\ folder.at = "importing"
    /\ nloads < MaxFolderLoads
    /\ ImportAny(name, how)

\* validate_folder from the return of recursive_import_tests to the loop of
\* validate_subset: with_dynamic of every imported module, against the
\* graph g
FolderValidate(g, order) ==
    /\ folder.at = "importing"
    /\ tb = FolderFrames
    /\ folder.pending = {}
    /\ IF \E m \in folder.imported : tracked[m] = NoRef
       THEN \* with_dynamic raises KeyError
            /\ folder' = [folder EXCEPT !.at = "raised"]
            /\ UNCHANGED <<py_tracked, rust_graph, filter_fn, todo,
                           diff_count, printed, valpc>>
       ELSE /\ py_tracked' = [m \in folder.imported |-> WithDynamic(m)]
            /\ order \in ItemsOf(py_tracked')
            /\ rust_graph' = g
            /\ filter_fn' = {m \in Mods : IsLocalTestModule(m)}
            /\ todo' = order
            /\ diff_count' = 0
            /\ printed' = <<>>
            /\ valpc' = "loop"
            /\ folder' = [folder EXCEPT !.at = "validating"]
    /\ UNCHANGED besideVal

\* validate_folder after validate_subset: every module of the folder that
\* came into sys.modules since the start leaves the tracker and sys.modules
\* (validator.py 197-205), in the order of a set; del t.tracked[m] raises
\* KeyError for a module the tracker does not hold
FolderCleanup ==
    /\ folder.at = "validating"
    /\ valpc = "returned"
    /\ LET new_k == sysmodules \ folder.old_k
           gone == {m \in new_k : BaseNs(m) = "p"}
           untracked == {m \in gone : tracked[m] = NoRef}
       IN \E done \in SUBSET gone :
          /\ IF untracked = {} THEN done = gone
             ELSE done \cap untracked = {}
          /\ tracked' = [n \in Names |->
                            IF n \in done THEN NoRef ELSE tracked[n]]
          /\ dynamic_users' = [n \in Names |->
                                  IF n \in done THEN {} ELSE dynamic_users[n]]
          /\ sysmodules' = sysmodules \ done
          /\ folder' = IF untracked = {}
                       THEN [folder EXCEPT !.at = "cleaned",
                                           !.result = <<0, diff_count>>]
                       ELSE [folder EXCEPT !.at = "raised"]
    /\ tb' = <<>>
    /\ lastWalk' = NoWalk
    /\ lastDone' = NoDone
    /\ UNCHANGED <<dynamic_imports, dynamic_stack, file_to_module,
                   dynamic_anchors, dynamic_ignores, wrapped, calls, dynLog>>
    /\ UNCHANGED <<py_tracked, rust_graph, filter_fn, todo, diff_count,
                   printed, valpc>>
    /\ UNCHANGED <<stack, cxt, heap, nrefs, frames, imports, nloads,
                   histVars, graphVars, selVars, fileVars, plugVars,
                   sideVars>>

\* validate: the tracker started with record_dynamic on, the package p
\* already imported or not, validate_folder not called yet
FolderInit ==
    /\ dynamic_anchors \in SUBSET AnchorChoices
    /\ dynamic_ignores = {}
    /\ stack = <<Root>>
    /\ cxt = 1
    /\ \E pre \in BOOLEAN :
        /\ tracked = [n \in Names |-> CASE n = Root -> 1
                                        [] n = Helper /\ pre -> 2
                                        [] OTHER -> NoRef]
        /\ heap = [r \in Refs |-> IF r = 1 /\ pre THEN {Helper} ELSE {}]
        /\ nrefs = IF pre THEN 2 ELSE 1
        /\ sysmodules = IF pre THEN {Helper} ELSE {}
        /\ file_to_module = [f \in ModFiles |->
                               IF f = FileOf(Helper) /\ pre
                               THEN Helper ELSE NoMod]
        /\ wrapped = IF pre THEN dynamic_anchors ELSE {}
    /\ frames = <<>>
    /\ imports = [m \in Names |-> {}]
    /\ nloads = 0
    /\ anyFail = FALSE
    /\ completed = [m \in Mods |-> {}]
    /\ last = NoEvent
    /\ lastConsol = NoConsol
    /\ lateLoads = {}
    /\ dynamic_imports = [a \in AnchorKeys |-> {}]
    /\ dynamic_users = [m \in Names |-> {}]
    /\ dynamic_stack = 0
    /\ tb = <<>>
    /\ calls = <<>>
    /\ lastWalk = NoWalk
    /\ lastDone = NoDone
    /\ dynLog = {}

\* ------------------------------------------------- the validation plugin
\* TestfullyValidate: the test files of the session, and what their test
\* functions import when they run
MaxItems == 2        \* items that the session runs
MaxBodyLoads == 2    \* import statements executed while the items run
ItemFiles == {"p/a.py", "p/b.py"}
\* import_path = f[:-3].replace("/", ".")
ImportPathOf(f) == IF f = "p/a.py" THEN "p.a" ELSE "p.b"
\* what the test function of an item imports
BodyImports == {{}, {"p.c"}, {"p.c", "p.d"}}
\* file_depends_on for a test file: a set of names, or nothing
FileGraphs == [ItemFiles -> {Absent, {"p"}, {"p", "p.c"}}]

\* the parameters of Tracker.enter_context beside self, and the arguments
\* that pytest_runtest_protocol passes: import_path and import_callback
EnterContextParams == 1
EnterContextArgs == 2

NoItem ==
    [phase |-> "idle", file |-> NoMod, imports |-> {}, validating |-> FALSE,
     before |-> {}, expected |-> {}, warnings_emitted |-> {},
     error |-> "none", outcome |-> "none"]

\* _report_unexpected(item, unexpected): a warning recorded for the file, or
\* the report of a failed teardown
ReportUnexpected(rs, f, unexpected, warn) ==
    IF warn
    THEN Append(rs, [kind |-> "warning", file |-> f, when |-> "runtest",
                     names |-> unexpected])
    ELSE Append(rs, [kind |-> "failed", file |-> f, when |-> "teardown",
                     names |-> unexpected])

\* pytest_sessionstart: the xdist controller gets the graph before the
\* workers need it; when the get raises, the hook never yields
SessionStart(controller) ==
    /\ prot.phase = "created"
    /\ is_controller' = controller
    /\ LET r == GraphLoaderLoad(FALSE, TRUE, graph_file # "absent",
                                xcfg.package_map) IN
       IF ~controller
       THEN /\ prot' = NoItem
            /\ UNCHANGED <<graph_file, ctl>>
       ELSE IF r.graph = "error"
       THEN /\ prot' = [NoItem EXCEPT !.phase = "raised",
                                      !.error = "AttributeError"]
            /\ UNCHANGED <<graph_file, ctl>>
       ELSE /\ prot' = NoItem
            /\ graph_file' = IF r.saves THEN "saved" ELSE graph_file
            /\ ctl' = [ctl EXCEPT !.graph = r.graph, !.how = r.how]
    /\ UNCHANGED <<current_file, expected_imports, warnonly, file_graph,
                   reports, nitems>>
    /\ UNCHANGED <<trackerVars, hostVars, histVars, graphVars, selVars,
                   dynVars, fileVars, valVars, machVars, confVars, xcfg,
                   workers>>

\* pytest_runtest_protocol(item, nextitem), up to its yield
ProtocolEnter(f, body) ==
    /\ prot.phase = "idle"
    /\ frames = <<>>
    /\ nitems < MaxItems
    /\ nitems' = nitems + 1
    /\ LET import_path == ImportPathOf(f)
           item == [NoItem EXCEPT !.file = f, !.imports = body]
       IN IF is_controller
          THEN /\ prot' = [item EXCEPT !.phase = "yielded"]
               /\ UNCHANGED <<stack, current_file, expected_imports, reports>>
          ELSE IF EnterContextArgs # EnterContextParams
          THEN \* enter_context(import_path, import_callback) raises
               /\ prot' = [item EXCEPT !.phase = "raised",
                                       !.validating = TRUE,
                                       !.error = "TypeError"]
               /\ UNCHANGED <<stack, current_file, expected_imports, reports>>
          ELSE IF tracked[import_path] = NoRef
          THEN \* with_dynamic(import_path) raises, the context entered
               /\ stack' = Append(stack, import_path)
               /\ prot' = [item EXCEPT !.phase = "raised",
                                       !.validating = TRUE,
                                       !.error = "KeyError"]
               /\ UNCHANGED <<current_file, expected_imports, reports>>
          ELSE LET before == WithDynamic(import_path)
                   fresh == f # current_file
                   exp == IF fresh THEN OrEmpty(file_graph[f])
                          ELSE expected_imports
                   unexpected == before \ exp
               IN /\ stack' = Append(stack, import_path)
                  /\ current_file' = f
                  /\ expected_imports' = exp
                  /\ reports' = IF fresh /\ unexpected # {}
                                THEN ReportUnexpected(reports, f, unexpected,
                                                      warnonly)
                                ELSE reports
                  /\ prot' = [item EXCEPT !.phase = "yielded",
                                          !.validating = TRUE,
                                          !.before = before,
                                          !.expected = OrEmpty(exp)]
    /\ UNCHANGED <<is_controller, warnonly, file_graph>>
    /\ UNCHANGED <<cxt, tracked, heap, nrefs, hostVars, histVars, besidePlug>>

\* the test function imports name, in the order of its statements
TestLoad(name) ==
    /\ prot.phase = "yielded"
    /\ name \in prot.imports
    /\ frames = <<>>
    /\ nloads < MaxBodyLoads
    /\ nloads' = nloads + 1
    /\ imports' = [imports EXCEPT ![Root] = @ \cup {name}]
    /\ Enter(name, <<>>)

\* the imports of the module bodies that the test function loads
TestBodyImport(name) ==
    /\ prot.phase = "yielded"
    /\ frames # <<>>
    /\ Top(frames).st = "body"
    /\ nloads < MaxBodyLoads
    /\ nloads' = nloads + 1
    /\ imports' = [imports EXCEPT ![Top(frames).name] = @ \cup {name}]
    /\ Enter(name, frames)

\* the test function returns: what it imports is loaded
TestReturns ==
    /\ prot.phase = "yielded"
    /\ frames = <<>>
    /\ prot.imports \subseteq sysmodules \/ nloads = MaxBodyLoads
    /\ prot' = [prot EXCEPT !.phase = "ran", !.outcome = "passed"]
    /\ UNCHANGED <<is_controller, current_file, expected_imports, warnonly,
                   file_graph, reports, nitems>>
    /\ UNCHANGED <<trackerVars, hostVars, histVars, besidePlug>>

\* pytest_runtest_protocol, resumed after its yield
ProtocolExit ==
    /\ prot.phase = "ran"
    /\ LET import_path == ImportPathOf(prot.file)
           exit == ExitOutcome(Top(stack), import_path)
           after == WithDynamic(import_path)
           caused_by_test == after \ prot.before
           unexpected ==
               (caused_by_test \ prot.expected) \ prot.warnings_emitted
       IN IF ~prot.validating
          THEN /\ prot' = [prot EXCEPT !.phase = "idle"]
               /\ UNCHANGED <<stack, reports>>
          ELSE IF exit.error # "none"
          THEN /\ stack' = Pop(stack)
               /\ prot' = [prot EXCEPT !.phase = "raised",
                                       !.error = exit.error]
               /\ UNCHANGED reports
          ELSE /\ stack' = Pop(stack)
               /\ reports' = IF unexpected # {}
                             THEN ReportUnexpected(reports, prot.file,
                                                   unexpected, warnonly)
                             ELSE reports
               /\ prot' = [prot EXCEPT !.phase = "idle"]
    /\ UNCHANGED <<is_controller, current_file, expected_imports, warnonly,
                   file_graph, nitems>>
    /\ UNCHANGED <<cxt, tracked, heap, nrefs, hostVars, histVars, besidePlug>>

\* TestfullyValidate(hook, graph, rel_root): the tracker is started
PlugInit ==
    /\ is_controller = FALSE
    /\ current_file = NoMod
    /\ expected_imports = Absent
    /\ warnonly \in BOOLEAN
    /\ file_graph \in FileGraphs
    /\ prot = [NoItem EXCEPT !.phase = "created"]
    /\ reports = <<>>
    /\ nitems = 0

\* no TestfullyValidate
PlugIdle ==
    /\ is_controller = FALSE
    /\ current_file = NoMod
    /\ expected_imports = Absent
    /\ warnonly = FALSE
    /\ file_graph = <<>>
    /\ prot = NoItem
    /\ reports = <<>>
    /\ nitems = 0

\* ------------------------------------------ start_tracking, stop_tracking
\* Tracker instances, and the functions found in the three places of the
\* host that start_tracking overwrites: the original one, the closure of a
\* Tracker instance, or the module-level _builtins_import_no_cache
Trackers == {"A", "B", "C"}
Originals == [find_and_load |-> "original", handle_fromlist |-> "original",
              builtins_import |-> "original"]
NoOlds == [find_and_load |-> "unset", handle_fromlist |-> "unset",
           builtins_import |-> "unset"]

\* tracker.py 106-111 and 199: the functions start_tracking saves
SavedOlds(inst) ==
    [find_and_load |-> inst.find_and_load,
     handle_fromlist |-> inst.handle_fromlist,
     builtins_import |-> inst.builtins_import]

\* tracker.py 192-200: the functions start_tracking installs
Hooks(t) ==
    [find_and_load |-> t, handle_fromlist |-> t,
     builtins_import |-> "_builtins_import_no_cache"]

\* a stop that leaves builtins.__import__ as it is
RestoredNoBuiltins(inst, old) ==
    [inst EXCEPT !.handle_fromlist = old.handle_fromlist,
                 !.find_and_load = old.find_and_load]

\* tracker.py 212-215: the functions in place after stop_tracking
Restored(inst, old) ==
    [inst EXCEPT !.handle_fromlist = old.handle_fromlist,
                 !.find_and_load = old.find_and_load,
                 !.builtins_import = old.builtins_import]

\* Tracker.start_tracking on an instance not started before
StartTracking(t) ==
    /\ phase[t] = "new"
    /\ olds' = [olds EXCEPT ![t] = SavedOlds(installed)]
    /\ installed' = Hooks(t)
    /\ phase' = [phase EXCEPT ![t] = "started"]
    /\ running' = Append(running, t)
    /\ UNCHANGED <<nested, confVars, xdistVars, besideSide>>

\* Tracker.stop_tracking on a started instance
StopTracking(t) ==
    /\ phase[t] = "started"
    /\ installed' = Restored(installed, olds[t])
    /\ phase' = [phase EXCEPT ![t] = "stopped"]
    /\ nested' = (nested /\ Top(running) = t)
    /\ running' = SelectSeq(running, LAMBDA u : u # t)
    /\ UNCHANGED <<olds, confVars, xdistVars, besideSide>>

MachIdle ==
    /\ installed = Originals
    /\ olds = [t \in Trackers |-> NoOlds]
    /\ phase = [t \in Trackers |-> "new"]
    /\ running = <<>>
    /\ nested = TRUE

\* ------------------------------------------------------------ hook_zeroconf
\* Directories are paths relative to the root, as sequences of names. The
\* input is the set of directories under the root, those that hold an
\* __init__.py, and those whose __init__.py looks like a pkgutil namespace
\* stanza.
DirPaths ==
    { <<"tests">>, <<"lib">>, <<"src">>, <<"src", "app">>, <<"ns">>,
      <<"ns", "core">>, <<"ns", "extra">>, <<"sub">>, <<"sub", "tests">> }
NsCandidates == {<<"ns">>, <<"lib">>}
ParentDir(d) == SubSeq(d, 1, Len(d) - 1)
ChildDirs(fs, at) == {d \in fs.dirs : Len(d) > 0 /\ ParentDir(d) = at}
FsTrees ==
    { fs \in [dirs : SUBSET DirPaths, inits : SUBSET DirPaths,
              nslike : SUBSET NsCandidates] :
        /\ \A d \in fs.dirs : Len(d) > 1 => ParentDir(d) \in fs.dirs
        /\ fs.inits \subseteq fs.dirs
        /\ fs.nslike \subseteq fs.inits
        /\ \A d \in fs.nslike : ChildDirs(fs, d) \subseteq fs.inits }
NoTree == [dirs |-> {}, inits |-> {}, nslike |-> {}]
NoHook == [made |-> FALSE]

\* PurePath.name
NameOf(d) == d[Len(d)]
\* str(path.relative_to(root))
RECURSIVE JoinWith(_, _)
JoinWith(d, sep) ==
    IF Len(d) = 1 THEN d[1]
    ELSE JoinWith(ParentDir(d), sep) \o sep \o NameOf(d)
RelStr(d) == IF d = <<>> THEN "." ELSE JoinWith(d, "/")
\* the dotted name made of the components of a module path
Dotted(py) == JoinWith(py, ".")

\* find_package_roots(root / at)
RECURSIVE FindPackageRoots(_, _)
FindPackageRoots(fs, at) ==
    UNION { IF child \in fs.inits THEN {child}
            ELSE FindPackageRoots(fs, child) : child \in ChildDirs(fs, at) }

\* the while loop of infer_ns_pkg
RECURSIVE InferWalk(_, _, _, _)
InferWalk(fs, pkgroot, first_non_ns, ns) ==
    IF first_non_ns \in fs.nslike
    THEN LET sub == ChildDirs(fs, first_non_ns) IN
         IF Cardinality(sub) = 1
         THEN LET c == CHOOSE x \in sub : TRUE
              IN InferWalk(fs, pkgroot, c, Append(ns, NameOf(c)))
         ELSE [fs_path |-> pkgroot, py_path |-> <<NameOf(pkgroot)>>]
    ELSE [fs_path |-> first_non_ns, py_path |-> ns]

\* infer_ns_pkg(pkgroot)
InferNsPkg(fs, pkgroot) == InferWalk(fs, pkgroot, pkgroot, <<NameOf(pkgroot)>>)

\* hook_zeroconf(root): the arguments given to ZeroConfHook; a mapping is
\* the set of its (key, value) pairs
ZeroConf(fs) ==
    LET pkg_roots == FindPackageRoots(fs, <<>>)
        tst == {r \in pkg_roots : NameOf(r) = "tests"}
        src == pkg_roots \ tst
    IN [made |-> TRUE,
        global_ns |-> {InferNsPkg(fs, r).py_path[1] : r \in src},
        local_ns |-> {NameOf(r) : r \in tst},
        src_roots |-> { <<Dotted(InferNsPkg(fs, r).py_path),
                          RelStr(InferNsPkg(fs, r).fs_path)>> : r \in src },
        tst_dirs |-> {<<RelStr(ParentDir(r)), "tests">> : r \in tst}]

\* hook = hook_zeroconf(root)
HookZeroconf ==
    /\ ~zhook.made
    /\ zhook' = ZeroConf(fstree)
    /\ UNCHANGED <<fstree, machVars, xdistVars, besideSide>>

ConfInit ==
    /\ fstree \in FsTrees
    /\ zhook = NoHook

ConfIdle ==
    /\ fstree = NoTree
    /\ zhook = NoHook

\* ------------------------------------------------------ plugin under xdist
\* One controller and its workers.
Workers == {"gw0", "gw1", "gw2"}

\* pytest_configure on the controller: the shared path is the file --tf-graph
\* names if it exists, a path in a fresh temporary folder otherwise
PytestConfigure(cfg) ==
    /\ ctl.at = "new"
    /\ xcfg' = cfg
    /\ graph_file' = IF cfg.given THEN "given" ELSE "absent"
    /\ ctl' = [ctl EXCEPT !.at = "configured"]
    /\ UNCHANGED <<workers, machVars, confVars, besideSide>>

\* pytest_sessionstart on the controller: TestfullyValidate, when it is
\* registered, runs first and gets the graph; then xdist starts the workers
\* and hands each the shared path. When the get raises, the hook call ends
\* in the exception and the loader keeps no graph; whether xdist still
\* starts workers is not decided by this code, so both outcomes are kept.
ControllerSessionStart ==
    /\ ctl.at = "configured"
    /\ LET r == GraphLoaderLoad(FALSE, TRUE, graph_file # "absent",
                                xcfg.package_map)
           ready == [w \in Workers |-> [at |-> "ready", graph |-> "none",
                                        how |-> "none"]]
       IN
       IF xcfg.novalidate
       THEN /\ ctl' = [ctl EXCEPT !.at = "started"]
            /\ workers' = ready
            /\ UNCHANGED graph_file
       ELSE IF r.graph = "error"
       THEN /\ ctl' = [at |-> "failed", graph |-> "none", how |-> "none"]
            /\ workers' \in {workers, ready}
            /\ UNCHANGED graph_file
       ELSE /\ ctl' = [at |-> "started", graph |-> r.graph, how |-> r.how]
            /\ graph_file' = IF r.saves THEN "saved" ELSE graph_file
            /\ workers' = ready
    /\ UNCHANGED <<xcfg, machVars, confVars, besideSide>>

\* the first graph.get(session) of a worker, in pytest_collection_modifyitems
\* of TestfullySelect. With --tf-noselect no hook of a worker reaches the
\* loader: pytest_runtest_protocol of TestfullyValidate raises in its
\* enter_context call, before its own graph.get.
WorkerGet(w) ==
    /\ workers[w].at = "ready"
    /\ ~xcfg.noselect
    /\ LET r == GraphLoaderLoad(TRUE, FALSE, graph_file # "absent",
                                xcfg.package_map) IN
       workers' = [workers EXCEPT ![w] = [at |-> "got", graph |-> r.graph,
                                          how |-> r.how]]
    /\ UNCHANGED <<xcfg, graph_file, ctl, machVars, confVars, besideSide>>

\* a worker ends its session
WorkerFinish(w) ==
    /\ workers[w].at \in {"ready", "got"}
    /\ workers[w].at = "ready" => xcfg.noselect
    /\ workers' = [workers EXCEPT ![w].at = "finished"]
    /\ UNCHANGED <<xcfg, graph_file, ctl, machVars, confVars, besideSide>>

XdistUnborn ==
    /\ ctl = [at |-> "new", graph |-> "none", how |-> "none"]
    /\ workers = [w \in Workers |-> [at |-> "unborn", graph |-> "none",
                                     how |-> "none"]]

XdistIdle ==
    /\ xcfg = NoCfg
    /\ graph_file = "absent"
    /\ XdistUnborn

\* a run without xdist: the loader's options and file are inputs
SideLoader == MachIdle /\ ConfIdle /\ LoaderInit /\ XdistUnborn

SideIdle == MachIdle /\ ConfIdle /\ XdistIdle

TrackerInit ==
    /\ stack = <<Root>>
    /\ cxt = 1
    /\ tracked = [n \in Names |-> IF n = Root THEN 1 ELSE NoRef]
    /\ heap = [r \in Refs |-> {}]
    /\ nrefs = 1
    /\ sysmodules = {}
    /\ frames = <<>>
    /\ imports = [m \in Names |-> {}]
    /\ nloads = 0
    /\ anyFail = FALSE
    /\ completed = [m \in Mods |-> {}]
    /\ last = NoEvent
    /\ lastConsol = NoConsol
    /\ lateLoads = {}

Init == TrackerInit /\ GraphInit /\ SelIdle /\ DynIdle /\ FilesIdle /\ ValIdle /\ PlugIdle /\ SideIdle

Next ==
    \/ \E name \in Mods : TopLoad(name)
    \/ ParentImport
    \/ \E found \in BOOLEAN : FindSpec(found)
    \/ \E name \in Mods : BodyImport(name)
    \/ Return
    \/ \E caught \in BOOLEAN : Raise(caught)

Spec == Init /\ [][Next]_vars

GraphNext ==
    \/ \E m, n \in GMods : Merge(m, n)
    \/ FinishBuild
    \/ \E E \in AllCalls : AddDynamicDependenciesAtLeaves(E)

SpecGraph == Init /\ [][GraphNext]_vars

SelectNext ==
    \/ PytestCollectionModifyitems
    \/ \E head \in BOOLEAN, tail \in CommitTails :
           ImpactCollectionModifyitems(head, tail)

InitSelect == TrackerInit /\ GraphInit /\ SelInit /\ DynIdle /\ FilesIdle /\ ValIdle /\ PlugIdle /\ SideIdle

SpecSelect == InitSelect /\ [][SelectNext]_vars

TfSelectNext == TfPytestCollectionModifyitems

InitTfSelect == TrackerInit /\ GraphInit /\ SelInit /\ DynIdle /\ FilesIdle /\ ValIdle /\ PlugIdle /\ SideLoader

SpecTfSelect == InitTfSelect /\ [][TfSelectNext]_vars

DynNext ==
    \/ \E name \in Mods, how \in Hows : DynImport(name, how)
    \/ BodyEnd
    \/ \E fn \in FnNames : DynCall(fn)
    \/ DynReturn

InitDyn == DynInit /\ GraphInit /\ SelIdle /\ FilesIdle /\ ValIdle /\ PlugIdle /\ SideIdle

SpecDyn == InitDyn /\ [][DynNext]_vars

HookNext ==
    \/ \E name \in Mods : HookTopLoad(name)
    \/ ParentImport
    \/ \E found \in BOOLEAN : FindSpec(found)
    \/ \E name \in Mods : HookBodyImport(name)
    \/ Return
    \/ \E caught \in BOOLEAN : Raise(caught)
    \/ \E name \in Foreign : ForeignLoad(name)
    \/ \E b \in FromBindings : HandleFromlist(b)

SpecHook == Init /\ [][HookNext]_vars

MachNext ==
    \/ \E t \in Trackers : StartTracking(t)
    \/ \E t \in Trackers : StopTracking(t)

SpecMach == Init /\ [][MachNext]_vars

ConfNext == HookZeroconf

InitConf ==
    TrackerInit /\ GraphInit /\ SelIdle /\ DynIdle /\ FilesIdle /\ ValIdle
        /\ PlugIdle /\ MachIdle /\ ConfInit /\ XdistIdle

SpecConf == InitConf /\ [][ConfNext]_vars

XdistNext ==
    \/ \E cfg \in XCfgs : PytestConfigure(cfg)
    \/ ControllerSessionStart
    \/ \E w \in Workers : WorkerGet(w)
    \/ \E w \in Workers : WorkerFinish(w)

SpecXdist == Init /\ [][XdistNext]_vars

CxtNext ==
    \/ \E name \in Mods : CxtTopLoad(name)
    \/ ParentImport
    \/ \E found \in BOOLEAN : FindSpec(found)
    \/ \E name \in Mods : CxtBodyImport(name)
    \/ Return
    \/ \E caught \in BOOLEAN : Raise(caught)
    \/ \E c \in Cxts : EnterContext(c)
    \/ \E name \in Mods : CxtLoad(name)
    \/ \E expected \in Cxts : ExitContext(expected)

InitCxt == CxtInit /\ GraphInit /\ SelIdle /\ DynIdle /\ FilesIdle /\ ValIdle /\ PlugIdle /\ SideIdle

SpecCxt == InitCxt /\ [][CxtNext]_vars

FilesNext ==
    \/ \E f \in SrcFiles : ParseFile(f)
    \/ FinishParse
    \/ \E switch \in BOOLEAN : Clone(switch)
    \/ \E e \in Entries : Overlay(e)

InitFiles ==
    TrackerInit /\ GraphInit /\ SelIdle /\ DynIdle /\ FilesInit /\ ValIdle
        /\ PlugIdle /\ SideIdle

SpecFiles == InitFiles /\ [][FilesNext]_vars

ValNext == ValidateStep \/ ValidateReturn

FolderNext ==
    \/ FolderEnter
    \/ \E name \in Mods : FolderImport(name)
    \/ \E name \in Mods, how \in Hows : FolderBodyImport(name, how)
    \/ BodyEnd
    \/ \E fn \in FnNames : DynCall(fn)
    \/ DynReturn
    \/ \E g \in FolderGraphs, order \in Seq1(FolderTests) :
           FolderValidate(g, order)
    \/ ValidateStep
    \/ ValidateReturn
    \/ FolderCleanup

InitFolder ==
    FolderInit /\ GraphInit /\ SelIdle /\ FilesIdle /\ ValIdle /\ PlugIdle
        /\ SideIdle

SpecFolder == InitFolder /\ [][FolderNext]_vars

InitVal ==
    TrackerInit /\ GraphInit /\ SelIdle /\ DynIdle /\ FilesIdle /\ ValInit
        /\ PlugIdle /\ SideIdle

SpecVal == InitVal /\ [][ValNext]_vars

PlugNext ==
    \/ \E controller \in BOOLEAN : SessionStart(controller)
    \/ \E f \in ItemFiles, body \in BodyImports : ProtocolEnter(f, body)
    \/ \E name \in Mods : TestLoad(name)
    \/ ParentImport
    \/ FindSpec(TRUE)
    \/ \E name \in Mods : TestBodyImport(name)
    \/ Return
    \/ TestReturns
    \/ ProtocolExit

InitPlug ==
    TrackerInit /\ GraphInit /\ SelIdle /\ DynIdle /\ FilesIdle /\ ValIdle
        /\ PlugInit /\ SideLoader

SpecPlug == InitPlug /\ [][PlugNext]_vars


\* ------------------------------------------------------ tracker properties
\* the import statements executed by module bodies, as a relation
RECURSIVE ReachVia(_, _)
ReachVia(deps, seen) ==
    LET more == UNION {deps[m] : m \in seen} IN
    IF more \subseteq seen THEN seen ELSE ReachVia(deps, seen \cup more)
\* the names reached from m through one or more import statements
ImportClosure(m) == ReachVia(imports, imports[m])
SameCycle(m, n) == m # n /\ n \in ImportClosure(m) /\ m \in ImportClosure(n)
OnCycle(m) == m \in ImportClosure(m)
AllReturned == frames = <<>>
FreshNames(fs) == SelectSeq([i \in 1..Len(fs) |-> IF fs[i].fresh THEN fs[i].name ELSE Root],
                            LAMBDA x : x # Root)

\* C1: while no load has failed, the tracked set of every module whose load
\* has returned contains every name the hook was invoked for (directly or
\* nested, repeat loads included) between the start and the return of that load.
C1_TrackedComplete ==
    ~anyFail =>
        \A m \in Mods : completed[m] # {} =>
            /\ tracked[m] # NoRef
            /\ completed[m] \subseteq heap[tracked[m]]

\* a returned load whose nested loads reached a name its own body never imported
C1_Witness ==
    /\ ~anyFail
    /\ AllReturned
    /\ \E m \in Mods : \E n \in completed[m] :
          n \notin imports[m] \cup {"p"} /\ n \in heap[tracked[m]]

\* C2: once all loads have returned (none having failed), any two modules on
\* a common import cycle have the very same set object in tracked[].
C2_CycleSameObject ==
    (AllReturned /\ ~anyFail) =>
        \A m, n \in Mods : SameCycle(m, n) => tracked[m] = tracked[n]

\* C3: after a cycle has been consolidated on its first member a, a module d
\* that a loads next (no other consolidation in between) is in the tracked
\* set of every member of that cycle.
C3_LateLoadSeenByCycle ==
    ~anyFail =>
        \A e \in lateLoads : \A y \in e[1] :
            tracked[y] # NoRef /\ e[2] \in heap[tracked[y]]

\* a three-module cycle whose first member loaded a fourth module afterwards
C3_Witness ==
    /\ ~anyFail
    /\ AllReturned
    /\ \E e \in lateLoads :
          /\ Cardinality(e[1]) = 3
          /\ e[2] \notin e[1] \cup {"p"}
          /\ \A y \in e[1] : e[2] \in heap[tracked[y]]

\* C4: for modules of a package with an empty __init__ whose imports form a
\* cycle, the final tracked set of every member is fixed by the import
\* statements alone (all that it reaches, and the package), whichever member
\* was loaded first.
C4_OrderIndependent ==
    (AllReturned /\ ~anyFail /\ imports["p"] = {} /\ "p" \notin Hooked) =>
        \A m \in Mods : OnCycle(m) =>
            heap[tracked[m]] = ImportClosure(m) \cup {"p"}

\* C5: when the loader raises during a fresh load of a name that is nowhere
\* else on the stack, the error reaches the importer, tracked has no entry
\* for the name and the name is not in the importer's tracked set.
C5_FailureRollback ==
    (/\ last.kind = "raise"
     /\ last.fresh
     /\ \A i \in 1..Len(last.pre) : last.pre[i] # last.name) =>
        /\ tracked[last.name] = NoRef
        /\ tracked[last.importer] # NoRef
        /\ last.name \notin heap[tracked[last.importer]]

\* a module (not the one whose file is missing) whose fresh load failed under
\* another module, after nested loads of its own
C5_Witness ==
    /\ last.kind = "raise"
    /\ last.fresh
    /\ last.name \notin Missable
    /\ last.inv # {}
    /\ last.importer # Root

\* C6: every hook invocation leaves the load stack as it found it, on return
\* and on error alike, and the stack holds exactly one entry per fresh load
\* in progress.
C6_StackBalance ==
    /\ last.kind # "none" => last.post = last.pre
    /\ stack = <<Root>> \o FreshNames(frames)

\* a failed fresh load, nested two deep, has just exited
C6_Witness ==
    /\ last.kind = "raise"
    /\ last.fresh
    /\ Len(last.pre) >= 3
    /\ last.post = last.pre


\* a first, successful load of the dotted name of last has just returned,
\* and its parent package is tracked and not being loaded
ChildLoaded ==
    /\ last.kind = "return"
    /\ last.fresh
    /\ Parent(last.name) # Root
    /\ tracked[Parent(last.name)] # NoRef
    /\ \A i \in 1..Len(stack) : stack[i] # Parent(last.name)

\* C32: after a successful load of a dotted module whose parent package is
\* tracked, the module's set contains the parent package and every member of
\* the parent package's set, also when the parent was loaded earlier.
C32_ParentReified ==
    ChildLoaded =>
        /\ Parent(last.name) \in heap[tracked[last.name]]
        /\ heap[tracked[Parent(last.name)]] \subseteq heap[tracked[last.name]]

\* C31: a load of a name whose top-level component is not in prefixes is
\* forwarded and leaves stack, tracked, dynamic_imports and dynamic_users
\* as they were.
C31_ForeignLoadFrame ==
    last.kind = "forward" => Snapshot = last.before

\* a name of a foreign package's submodule was loaded from a module body
\* whose own set is not empty
C31_Witness ==
    /\ last.kind = "forward"
    /\ last.name = "os.path"
    /\ Len(stack) > 1
    /\ heap[cxt] # {}
    /\ Snapshot = last.before

\* what the from-import added to the set of the importer
FromAdded == heap[tracked[last.importer]] \ last.before.tracked[last.importer].deps
\* the bound module's own name and its set, as they were before the call
FromExpected ==
    {last.binding.canonical} \cup
        last.before.tracked[last.binding.canonical].deps

\* C33: for `from pkg import x` with pkg a package of the prefixes and x
\* bound to a loaded module, the module's own name and its tracked set are
\* in the importer's set and the alias pkg.x is not added; x bound to a
\* non-module object adds nothing.
C33_FromImportAnyModule ==
    (last.kind = "fromlist" /\ last.name \in Packages) =>
        /\ last.binding.kind = "module" =>
              /\ last.binding.canonical \in heap[tracked[last.importer]]
              /\ FromAdded \subseteq FromExpected
        /\ last.binding.kind = "object" => FromAdded = {}

\* C33, amended: the same for a module whose own name is pkg.x or lies in
\* the prefixes; a module outside the prefixes bound under an alias, like
\* a non-module object, adds nothing. Nothing else of the tracker changes.
C33_FromImport ==
    (last.kind = "fromlist" /\ last.name \in Packages) =>
        /\ stack = last.before.stack
        /\ \A n \in Names : tracked[n] # tracked[last.importer] =>
              TrackedContents[n] = last.before.tracked[n]
        /\ IF last.binding.kind = "module"
              /\ BaseNs(last.binding.canonical) \in prefixes
           THEN heap[tracked[last.importer]] =
                  last.before.tracked[last.importer].deps \cup FromExpected
           ELSE FromAdded = {}

\* the body of p.b ran `from p import alias`, alias being the module p.a
C33_Witness ==
    /\ last.kind = "fromlist"
    /\ last.name = "p"
    /\ last.importer = "p.b"
    /\ last.binding.x = "alias"
    /\ last.binding.canonical = "p.a"
    /\ "p.a" \notin last.before.tracked["p.b"].deps
    /\ "p.a" \in heap[tracked["p.b"]]
    /\ FromName("p", "alias") \notin heap[tracked["p.b"]]

\* ------------------------------------------------------ graph properties
\* b is reachable from a through direct dependencies
DependsOn(a, b) == b \in Walk(forward, forward[a])

\* C7: in a built graph, for all modules a and b, a is in
\* affected_by_modules({b}) if and only if b is in module_depends_on(a)
C7_ReverseTransitivityAllModules ==
    built => \A a, b \in GMods :
        (a \in AffectedByModules({b})) <=> (b \in Closure(a))

\* C7 (amended): in a built graph, for every module a and every module b of
\* the global namespace, a is in affected_by_modules({b}) if and only if b
\* is in the closure of a
C7_ReverseTransitivity ==
    built => \A a \in GMods, b \in Globals :
        (a \in AffectedByModules({b})) <=> (b \in Closure(a))

\* a local module affected, through a global one, by a module it does not
\* import itself
C7_Witness ==
    /\ built
    /\ \E a \in Locals, b, c \in Globals :
        /\ forward[a] = {b}
        /\ c \in forward[b]
        /\ a \in AffectedByModules({c})
        /\ a \notin AffectedByModules({a})

\* C8: the closure of every module contains every module reachable from it
\* through direct dependencies, its direct dependencies among them
C8_ClosureContainsReachable ==
    \A m \in GMods :
        /\ forward[m] \subseteq Closure(m)
        /\ \A n \in GMods : DependsOn(m, n) => n \in Closure(m)

\* a chain of three imports, whose far end is in the closure of its head
C8_Witness ==
    \E m, n, k, z \in GMods :
        /\ Cardinality({m, n, k, z}) = 4
        /\ forward[m] = {n}
        /\ forward[n] = {k}
        /\ forward[k] = {z}
        /\ z \in Closure(m)

\* C9: all modules on an import cycle report the same closure, held in one
\* shared set: what is added through one member is seen through the others
C9_CycleSharesSet ==
    \A a, b \in GMods :
        (DependsOn(a, b) /\ DependsOn(b, a)) => slot[a] = slot[b]

\* a cycle of two modules, one of them importing a third: what was added
\* through that member is in the one set that both report
C9_Witness ==
    /\ built
    /\ forward["t.x"] = {"t.y"}
    /\ \E l \in Globals :
        /\ forward["t.y"] = {"t.x", l}
        /\ Closure("t.x") = {"t.x", "t.y", l}
    /\ slot["t.x"] = slot["t.y"]
    /\ Closure("t.y") = Closure("t.x")

\* m is imported by a module of the graph
Imported(m) == \E k \in GMods : m \in forward[k]

\* C10: after add_dynamic_dependencies_at_leaves(E) every closure is a
\* superset of what it was, and a strict superset for every module whose
\* previous closure contained one of the leaves of E
C10_OverlayStrictForAll ==
    lastCall.kind = "ok" => \A m \in GMods :
        /\ prevClosure[m] \subseteq Closure(m)
        /\ (\E e \in lastCall.entries : e[1] \in prevClosure[m])
               => Closure(m) # prevClosure[m]

\* C10 (amended): after add_dynamic_dependencies_at_leaves(E) every closure
\* is a superset of what it was, and a strict superset for every module of
\* an entry's scope that no module imports and whose previous closure
\* contained the module the entry names and not the entry's extra dependency
C10_OverlayMonotone ==
    lastCall.kind = "ok" => \A m \in GMods :
        /\ prevClosure[m] \subseteq Closure(m)
        /\ \A e \in lastCall.entries :
               (/\ ScopeOf(m) = e[2]
                /\ ~Imported(m)
                /\ e[1] \in prevClosure[m]
                /\ e[3] \notin prevClosure[m])
                   => (e[3] \in Closure(m) /\ Closure(m) # prevClosure[m])

\* a call that made the closure of a test module grow, through a helper
\* module that the test module imports and whose own closure stayed as it
\* was
C10_Witness ==
    /\ lastCall.kind = "ok"
    /\ \E m, h \in Locals, e \in lastCall.entries :
        /\ m # h
        /\ ~Imported(m)
        /\ h \in forward[m]
        /\ e[1] \in forward[h]
        /\ e[3] \notin prevClosure[m]
        /\ e[3] \in Closure(m)
        /\ Closure(h) = prevClosure[h]


\* C11: add_dynamic_dependencies_at_leaves fails when an id of its edge list
\* is not a leaf of the reverse index, and a failed call leaves every
\* closure and every affected set as it was
C11_NonLeafFails ==
    (lastCall.kind # "none" /\ lastCall.nonleaf # {}) =>
        /\ lastCall.kind = "failed"
        /\ \A m \in GMods : Closure(m) = prevClosure[m]


\* C12: after add_dynamic_dependencies_at_leaves([(L, {scope: X})]) every
\* module of that local scope whose closure contained L has every member of
\* X in its closure and is in affected_by_modules({x}) for each x of X
C12_OverlayEffect ==
    lastCall.kind = "ok" =>
        \A e \in lastCall.entries, m \in GMods :
            (ScopeOf(m) = e[2] /\ e[1] \in prevClosure[m]) =>
                /\ e[3] \in Closure(m)
                /\ m \in AffectedByModules({e[3]})

\* C12 (amended): after add_dynamic_dependencies_at_leaves([(L, {scope: X})])
\* every module of that local scope that no module imports and whose
\* closure contained L has every member of X in its closure, and is in
\* affected_by_modules({x}) for each x of X that is a module of the global
\* namespace
C12_OverlayEffectAtRoots ==
    lastCall.kind = "ok" =>
        \A e \in lastCall.entries, m \in GMods :
            (ScopeOf(m) = e[2] /\ ~Imported(m) /\ e[1] \in prevClosure[m]) =>
                /\ e[3] \in Closure(m)
                /\ e[3] \in Globals => m \in AffectedByModules({e[3]})

\* S4: a test module of the scope imports the named module and not the
\* extra dependency; after the call it is affected by the extra dependency
C12_Witness ==
    /\ lastCall.kind = "ok"
    /\ \E e \in lastCall.entries :
        /\ lastCall.entries = {e}
        /\ e[1] \in Globals
        /\ e[3] \in Globals
        /\ forward["t.x"] = {e[1]}
        /\ ~Imported("t.x")
        /\ e[3] \notin prevClosure["t.x"]
        /\ e[3] \in Closure("t.x")
        /\ "t.x" \in AffectedByModules({e[3]})


\* --------------------------------------------------- selector properties
Range(seq) == {seq[k] : k \in 1..Len(seq)}

\* the item was handed to pytest_deselected
Deselected(item) ==
    deselected.called /\ item \in Range(deselected.items)

\* the module of the file is affected by importlib or __import__ and the
\* hook overrides neither dynamic-dependency method
UnhandledDyn(file) ==
    ~hook_overrides /\ ModuleOf(file) \in DynAffectedModules(filegraph)

\* a modified file that nothing accounts for
Unaccounted(f) ==
    /\ f \in modified
    /\ ~FileKnown(filegraph, f)
    /\ f \notin {Collected[k].data : k \in 1..Len(Collected)}
    /\ f \notin always_run
    /\ f \notin irrelevant

\* C13: when pruning is not disabled, an item is deselected if and only if
\* its file is in the graph and not in affected_by_files(modified), its data
\* file is neither modified nor in always_run, neither its file nor its name
\* is in always_run, and its file has no unhandled dynamic-import dependency
C13_DeselectedIff ==
    (selpc = "done" /\ deselected.called) =>
        \A item \in Range(Collected) :
            Deselected(item) <=>
                /\ FileKnown(filegraph, item.file)
                /\ item.file \notin AffectedByFiles(filegraph, modified)
                /\ item.data \notin modified
                /\ item.data \notin always_run
                /\ item.file \notin always_run
                /\ item.name \notin always_run
                /\ ~UnhandledDyn(item.file)

\* C14: if some modified file is not in the graph, not a data file of a
\* collected item, not in always_run and not rejected as irrelevant, nothing
\* is deselected: the list holds every collected item and pytest_deselected
\* is not invoked
C14_UnaccountedDisablesPruning ==
    (selpc = "done" /\ \E f \in modified : Unaccounted(f)) =>
        /\ deselected = NotCalled
        /\ Len(items) = Len(Collected)
        /\ Range(items) = Range(Collected)

\* pruning disabled after the loop had taken items out of the list: they
\* are back, behind the ones that were kept
C14_Witness ==
    /\ selpc = "done"
    /\ Unaccounted("notes.txt")
    /\ deselected = NotCalled
    /\ items # Collected
    /\ Range(items) = Range(Collected)

\* C15: no item is deselected whose file has an unhandled dynamic-import
\* dependency
C15_DynamicNeverDeselected ==
    selpc = "done" =>
        \A item \in Range(Collected) :
            UnhandledDyn(item.file) => ~Deselected(item)

\* the place of an item in the collected list
PlaceOf(item) == CHOOSE i \in DOMAIN Collected : Collected[i] = item
\* the list holds collected items in the order of the collection
InCollectedOrder(seq) ==
    /\ Range(seq) \subseteq Range(Collected)
    /\ \A i, j \in DOMAIN seq : i < j => PlaceOf(seq[i]) < PlaceOf(seq[j])

\* C40: pytest_collection_modifyitems leaves the items list as an
\* order-preserving subsequence of the collected list, and when pruning is
\* disabled the list is the collected list in its order.
C40_OrderPreserved ==
    selpc = "done" =>
        /\ InCollectedOrder(items)
        /\ deselected = NotCalled => items = Collected


\* C34: TestfullySelect.pytest_collection_modifyitems never deselects an
\* item whose test file is not in the graph: a deselected item's file is in
\* the graph and not affected by the modified files.
C34_UnknownFileKept ==
    (selpc = "done" /\ deselected.called) =>
        \A k \in DOMAIN deselected.items :
            /\ FileKnown(filegraph, deselected.items[k].file)
            /\ deselected.items[k].file
                   \notin AffectedByFiles(filegraph, modified)

\* --------------------------------------------- dynamic-import properties
\* C16: when a load classified as dynamic with anchor A has just returned,
\* the name loaded is in dynamic_imports[A] and A is in dynamic_users[p],
\* p being the module on top of the load stack when the load began.
C16_DynamicAttribution ==
    (lastDone.kind = "dynamic" /\ lastDone.anchor # NoAnchor)
        => /\ lastDone.name \in dynamic_imports[lastDone.anchor]
           /\ lastDone.anchor \in dynamic_users[lastDone.importer]

\* C17: when a module q has just loaded p, by an import statement as well
\* as by a dynamic import, and dynamic_users[p] was not empty when the load
\* began, dynamic_users[q] includes what dynamic_users[p] held then.
C17_UsersPropagate ==
    (lastDone.kind # "none" /\ lastDone.importer # Root
     /\ lastDone.users0 # {})
        => lastDone.users0 \subseteq dynamic_users[lastDone.importer]

\* the module a file belongs to, whatever file_to_module knows of it
ModOfFile(file) == CHOOSE m \in Mods : FileOf(m) = file
\* the frames of tracked modules in the walked part of the stack of the
\* latest classification, by index, and the (module, function) of each
WalkedIdx ==
    {i \in lastWalk.start..(lastWalk.found - 1) :
        At(lastWalk.tb, i).file \in ModFiles}
FrameKey(i) ==
    <<ModOfFile(At(lastWalk.tb, i).file), At(lastWalk.tb, i).name>>
AnchorIdx ==
    {i \in WalkedIdx : AnchorMatch(dynamic_anchors, FrameKey(i)[1], FrameKey(i)[2])}
IgnoreIdx ==
    {i \in WalkedIdx : IgnoreMatch(dynamic_ignores, FrameKey(i)[1], FrameKey(i)[2])}
Outermost(S) == CHOOSE i \in S : \A j \in S : i <= j
Innermost(S) == CHOOSE i \in S : \A j \in S : j <= i
Walking == lastWalk.found # -1

\* C18: when a load is classified as dynamic and no walked frame matches
\* dynamic_ignores, the attribution point is the outermost walked frame that
\* matches dynamic_anchors if there is one, whatever tracked frames lie
\* deeper, and the last tracked-prefix frame otherwise.
C18_AnchorChoice ==
    (Walking /\ IgnoreIdx = {})
        => /\ lastWalk.idx # -1
           /\ lastWalk.anchor =
                IF AnchorIdx # {} THEN FrameKey(Outermost(AnchorIdx))
                ELSE IF WalkedIdx # {} THEN FrameKey(Innermost(WalkedIdx))
                ELSE NoAnchor

\* two walked frames match dynamic_anchors, the inner one being the deepest
\* tracked frame, and the outer one is chosen
C18_Witness ==
    /\ Walking
    /\ IgnoreIdx = {}
    /\ Cardinality(AnchorIdx) = 2
    /\ Innermost(WalkedIdx) \in AnchorIdx
    /\ lastWalk.anchor = FrameKey(Outermost(AnchorIdx))

\* C19: when a walked frame matches dynamic_ignores, the load is treated as
\* static (no attribution point, so nothing is recorded for it), whether the
\* frame lies outside a frame that matches dynamic_anchors, inside it, or is
\* that frame.
C19_IgnoreWins ==
    (Walking /\ IgnoreIdx # {})
        => lastWalk.idx = -1 /\ lastWalk.anchor = NoAnchor

\* the anchor of scenario S5, the modules that loaded a target through it
\* while they were being imported, and the targets of each
S5Anchor == <<Helper, "f">>
S5Loads == {e \in dynLog : e[2] = S5Anchor}
S5Callers == {e[1] : e \in S5Loads} \ {Root}
OwnTargets(c) == {e[3] : e \in {x \in S5Loads : x[1] = c}}

\* C20: with the function f of the helper module as a dynamic anchor,
\* with_dynamic(caller) is, for each caller, exactly the caller's own
\* dynamically loaded target plus its static dependencies.
C20_ExactlyOwnTarget ==
    S5Anchor \in dynamic_anchors
        => \A c \in S5Callers :
              WithDynamic(c) \subseteq heap[tracked[c]] \cup OwnTargets(c)

\* C20, amended: the imports of an anchor are shared by its users, so
\* with_dynamic(m) holds, for every module m that uses the anchor, the
\* target that any caller loaded through it.
C20_AnchorShared ==
    \A e \in dynLog : \A m \in Mods :
        (tracked[m] # NoRef /\ e[2] \in dynamic_users[m])
            => e[3] \in WithDynamic(m)

\* two callers loaded distinct targets through the anchor, and the first one
\* has the target of the second in with_dynamic, not in its tracked set
C20_Witness ==
    /\ S5Anchor \in dynamic_anchors
    /\ \E e1, e2 \in S5Loads :
        /\ e1[1] \in S5Callers
        /\ e2[1] # e1[1]
        /\ e2[3] # e1[3]
        /\ S5Anchor \in dynamic_users[e1[1]]
        /\ e2[3] \notin heap[tracked[e1[1]]]
        /\ e2[3] \in WithDynamic(e1[1])


\* ------------------------------------------------- start/stop properties
\* exactly the trackers of T were started, and all of them are stopped
StoppedExactly(T) ==
    \A t \in Trackers :
        phase[t] = IF t \in T THEN "stopped" ELSE "new"

\* C38: after two Tracker instances were each started once and stopped
\* once, in any order, the three places hold the original functions.
C38_AnyOrderRestores ==
    \A a, b \in Trackers :
        (a # b /\ StoppedExactly({a, b})) => installed = Originals

\* C38, amended: when the calls were nested (every stop_tracking was on the
\* instance started last among those still started) and no instance remains
\* started, the three places hold the original functions.
C38_NestedRestores ==
    (nested /\ running = <<>>) => installed = Originals

\* A was started, then B; B was stopped, then A
C38_Witness ==
    /\ StoppedExactly({"A", "B"})
    /\ nested
    /\ olds["A"] = Originals
    /\ olds["B"] = Hooks("A")
    /\ installed = Originals

\* ------------------------------------------------- hook_zeroconf properties
\* the package roots found under the root, the tests roots among them
PkgRoots == FindPackageRoots(fstree, <<>>)
TestsRoots == {r \in PkgRoots : NameOf(r) = "tests"}

\* C36: source_roots() of the hook maps the path of each package root,
\* relative to the root, to its module prefix, the tests root to "tests"
\* included, and test_folders() maps the path of the tests folder to "tests".
C36_ZeroconfMaps ==
    zhook.made =>
        /\ zhook.src_roots =
              { <<RelStr(InferNsPkg(fstree, r).fs_path),
                  Dotted(InferNsPkg(fstree, r).py_path)>> :
                    r \in PkgRoots \ TestsRoots }
              \cup {<<RelStr(r), "tests">> : r \in TestsRoots}
        /\ zhook.tst_dirs = {<<RelStr(r), "tests">> : r \in TestsRoots}

\* ------------------------------------------------------ xdist properties
\* C35: whenever a worker loads the graph from the shared path, the
\* controller has finished computing and saving the graph to that path, and
\* a worker never builds the graph itself.
C35_ControllerSavesFirst ==
    \A w \in Workers :
        workers[w].how # "none" =>
            /\ workers[w].how = "from_file"
            /\ ctl.how = "built"
            /\ graph_file = "saved"

\* ------------------------------------------------------ context properties
\* the exit_context call that has just returned matched the context entered
ContextExited == last.kind = "exit_context" /\ last.outcome.error = "none"
\* the modules loaded while that context was entered
LoadedWithin == last.inv \cap sysmodules

\* what tracked holds for name, nothing when name has no entry
Recorded(name) == IF tracked[name] = NoRef THEN {} ELSE heap[tracked[name]]

\* C21: when exit_context(name) has matched enter_context(name), every
\* module loaded in between is in tracked[name], whether or not name had an
\* entry in tracked before.
C21_ContextRecords ==
    ContextExited => LoadedWithin \subseteq Recorded(last.name)

\* the exit_context call that has just ended, and the top of the stack it met
ExitCalled == last.kind = "exit_context"
ActualTop == Top(last.pre)

\* C22: exit_context(expected) raises exactly when the entry on top of the
\* stack differs from expected, the error names that entry and expected, and
\* the call returns normally when they are equal.
C22_ExitMatches ==
    ExitCalled =>
        IF ActualTop # last.expected
        THEN /\ last.outcome.error # "none"
             /\ last.outcome.message = <<ActualTop, last.expected>>
        ELSE last.outcome.error = "none"

\* a context in which a module was loaded is exited under another name
C22_Witness ==
    /\ ExitCalled
    /\ ActualTop # last.expected
    /\ last.outcome.error # "none"
    /\ LoadedWithin # {}

\* C30: the error that exit_context raises on a mismatch is an AssertionError.
C30_AssertionError ==
    ExitCalled /\ ActualTop # last.expected
    => last.outcome.error = "AssertionError"

\* C39: exit_context(expected) removes exactly one entry from the stack on
\* every call, also on the calls that raise because the removed entry
\* differs from expected.
C39_ExitPopsOne ==
    ExitCalled =>
        /\ Len(stack) = Len(last.pre) - 1
        /\ stack = SubSeq(last.pre, 1, Len(last.pre) - 1)

\* an exit that raised, with the stack one entry shorter
C39_Witness ==
    /\ ExitCalled
    /\ last.outcome.error = "ValueError"
    /\ last.pre = <<Root, "w">>
    /\ last.expected = "p.a"
    /\ stack = <<Root>>

\* no hook invocation is in progress: no load is under way, within a
\* context or outside one
HookIdle == frames = <<>> \/ Top(frames).st = "context"

\* C37: whenever no load hook invocation is in progress, cxt is the very
\* set object stored at tracked[stack[-1]].
C37_CxtIsTop == HookIdle => cxt = tracked[Top(stack)]


\* -------------------------------------------------- graph and file properties
\* the closure that a list of imports yields: each id with its own closure
FromImports(ns) == UNION {{n} \cup Closure(n) : n \in ns}
\* the module g.a has an implementation file and an interface file
BothFiles == {"g/a.py", "g/a.pyi"} \subseteq DOMAIN tree

\* C23: when a module has an implementation file and an interface file,
\* file_depends_on(interface path) and module_depends_on(id) are the closure
\* of the imports of the interface file alone, and
\* file_depends_on(implementation path) is absent.
C23_InterfaceOverride ==
    (built /\ BothFiles) =>
        /\ FileDependsOn("g/a.pyi") = FromImports(tree["g/a.pyi"])
        /\ ModuleDependsOn("g.a") = FromImports(tree["g/a.pyi"])
        /\ FileDependsOn("g/a.py") = Absent

\* the imports of each module as its files state them: a function of the
\* source tree alone
AuthImports ==
    [m \in GMods |-> UNION {tree[f] : f \in {x \in DOMAIN tree : IdOf(x) = m}}]
\* the modules that m reaches through the imports of the source tree
ReachedInTree(m) == Walk(AuthImports, AuthImports[m])

\* the graph as the constructor returned it, no dynamic dependency added
Constructed == built /\ lastCall.kind = "none"

\* C25: for a fixed set of source files, the depends_on result of every
\* module is the same for every order in which the files are parsed and
\* merged: it is the set of modules reached through the imports of the
\* files, also for the modules on a cycle.
C25_OrderIndependent ==
    Constructed => \A m \in GMods : ModuleDependsOn(m) = ReachedInTree(m)

\* a graph built from files that import each other in a cycle, with a third
\* module that imports into the cycle
C25_Witness ==
    /\ Constructed
    /\ "g.b" \in tree[SourceFile(tree, "g.a")]
    /\ "g.a" \in tree["g/b.py"]
    /\ "g.a" \in tree["t/x.py"]
    /\ slot["g.a"] = slot["g.b"]
    /\ ModuleDependsOn("g.a") = {"g.a", "g.b"}
    /\ ModuleDependsOn("t.x") = {"g.a", "g.b"}

\* a clone is kept beside the graph that the caller holds
Cloned == kept.kind = "clone"

\* C27: clone() returns a graph whose closures equal the original's, and
\* add_dynamic_dependencies_at_leaves applied to one of the two graphs
\* changes no query result of the other, also for modules that share a
\* closure through a cycle.
C27_CloneIndependent ==
    Cloned =>
        /\ \A m \in GMods :
               /\ ObjDependsOn(kept, m) = kept.closure0[m]
               /\ ObjAffectedByModules(kept, {m}) = kept.affected0[m]
        /\ lastCall = kept.lastCall =>
               \A m \in GMods : ObjDependsOn(kept, m) = ModuleDependsOn(m)

\* g.a and g.b share a closure through a cycle and t.x imports g.a; the
\* two graphs agree on the cycle, and an overlay on one graph grew the
\* closure of t.x there and left it alone in the other graph
C27_Witness ==
    /\ Cloned
    /\ kept.slot["g.a"] = kept.slot["g.b"]
    /\ kept.lastCall.kind = "none"
    /\ lastCall.kind = "ok"
    /\ ModuleDependsOn("t.x") = {"g.a", "g.b", "g.c"}
    /\ ObjDependsOn(kept, "t.x") = {"g.a", "g.b"}
    /\ ObjDependsOn(kept, "g.a") = {"g.a", "g.b"}
    /\ ModuleDependsOn("g.b") = {"g.a", "g.b"}

\* what the graph gives for module m, nothing counted as the empty set
GraphDeps(m) == IF rust_graph[m] = Absent THEN {} ELSE rust_graph[m]
\* the modules that filter_fn accepts and whose tracked imports are not all
\* in the graph's set
Mismatched ==
    {m \in DOMAIN py_tracked :
        m \in filter_fn /\ ~(py_tracked[m] \subseteq GraphDeps(m))}

\* C28: validate_subset returns the number of modules accepted by filter_fn
\* whose tracked import set is not a subset of the graph's
\* module_depends_on for that module, an absent graph entry counting as
\* the empty set; dependencies that only the graph reports never count.
C28_ValidateSubset ==
    valpc = "returned" =>
        /\ diff_count = Cardinality(Mismatched)
        /\ {printed[i].module : i \in DOMAIN printed} = Mismatched

\* three modules tracked: one accepted and absent from the graph, one
\* accepted for which the graph reports more than was tracked, one that
\* lacks a dependency in the graph
C28_Witness ==
    /\ valpc = "returned"
    /\ filter_fn = VMods
    /\ DOMAIN py_tracked = VMods
    /\ rust_graph["t.x"] = Absent /\ py_tracked["t.x"] = {"g.a"}
    /\ rust_graph["t.y"] = {"g.a", "g.b"} /\ py_tracked["t.y"] = {"g.a"}
    /\ rust_graph["g.a"] = {} /\ py_tracked["g.a"] = {"g.b"}
    /\ diff_count = 2

\* the invocation of pytest_runtest_protocol for an item is over, on a
\* process that validates (not the xdist controller)
ItemOver == ~is_controller /\ prot.phase \in {"raised", "idle"} /\ nitems > 0
\* what the test function of the item imports beyond what the graph
\* expects for its file (every module of the model has a tracked prefix)
UnexpectedOf(it) == it.imports \ OrEmpty(file_graph[it.file])
WarningsFor(name) ==
    {i \in DOMAIN reports :
        reports[i].kind = "warning" /\ name \in reports[i].names}
FailedFor(f) ==
    \E i \in DOMAIN reports : reports[i].kind = "failed" /\ reports[i].file = f

\* C29: when a test imports a tracked-prefix module that is not among the
\* graph's expected imports for its test file, in fail mode that test is
\* reported as failed, and in warn-only mode the test passes and the
\* unexpected module is reported by exactly one warning.
C29_UnexpectedImportReported ==
    (ItemOver /\ prot.file # NoMod /\ UnexpectedOf(prot) # {}) =>
        IF warnonly
        THEN /\ prot.outcome = "passed"
             /\ \A name \in UnexpectedOf(prot) :
                    Cardinality(WarningsFor(name)) = 1
        ELSE prot.outcome = "failed" \/ FailedFor(prot.file)
====
